---- MODULE Spec2Model ----
(***************************************************************************)
(* Authentication state machine of shopify-app-remix: the admin strategies *)
(* AuthStrategy (auth/admin/authenticate.ts) and AuthCodeFlowStrategy      *)
(* (server/authenticate/admin/strategies/auth-code-flow.ts), and the       *)
(* webhook authenticator (server/authenticate/webhooks/authenticate.ts).   *)
(* A request is a process: it is received, runs its handler from one       *)
(* await point to the next, ends in an outcome (a returned context or a    *)
(* raised Response) and is answered.                                       *)
(***************************************************************************)
EXTENDS Integers, Sequences, FiniteSets, TLC

VARIABLES
    config,     \* this.config: fixed at construction
    storage,    \* config.sessionStorage: session id -> Session
    cookie,     \* the browser's signed OAuth state cookie, per shop
    flow,       \* progress of the OAuth flow, per shop
    proc        \* the requests in flight, one record per handler invocation

vars == <<config, storage, cookie, flow, proc>>

----------------------------------------------------------------------------
(* Bounds and finite domains                                               *)

MaxCodes == 1           \* distinct authorization codes the platform hands out
MaxParams == 2          \* query params of the URL handed to setUpValidRequest
MaxTrips == 3           \* the begin->callback round trips of a flow that are counted

Shops == {"s1", "s2"}
Subs == {"u1", "u2"}
NoShop == "none"
NoSub == "none"
ProcIds == {1, 2}
Codes == 1..MaxCodes

----------------------------------------------------------------------------
(* Sessions and their ids                                                  *)

NoId == <<"none", "none">>

\* an offline id that does not name the shop
getOfflineIdShared(shop) == <<"offline", "s1">>

getOfflineId(shop) == <<"offline", shop>>

getJwtSessionId(shop, sub) == <<shop, sub>>

SessionIds ==
    {getOfflineId(s) : s \in Shops} \cup {getJwtSessionId(s, u) : s \in Shops, u \in Subs}

NoSession ==
    [id |-> NoId, shop |-> NoShop, isOnline |-> FALSE, sub |-> NoSub,
     expired |-> FALSE, scopeOk |-> FALSE, accessToken |-> 0]

NewSession(shop, online, sub, code) ==
    [id |-> IF online THEN getJwtSessionId(shop, sub) ELSE getOfflineId(shop),
     shop |-> shop, isOnline |-> online, sub |-> IF online THEN sub ELSE NoSub,
     expired |-> FALSE, scopeOk |-> TRUE, accessToken |-> code]

\* Session.isActive(scopes): not expired and granted scope covers the required scope
isActive(session) == ~session.expired /\ session.scopeOk

\* sessions that may sit in storage when the app starts
StoredOffline(shop) ==
    {NoSession,
     NewSession(shop, FALSE, NoSub, 1),
     [NewSession(shop, FALSE, NoSub, 1) EXCEPT !.scopeOk = FALSE]}

StoredOnline(shop, sub) ==
    {NoSession,
     NewSession(shop, TRUE, sub, 1),
     [NewSession(shop, TRUE, sub, 1) EXCEPT !.expired = TRUE]}

----------------------------------------------------------------------------
(* Session tokens (JWT)                                                    *)

NoToken == [present |-> FALSE, valid |-> FALSE, shop |-> NoShop, sub |-> NoSub]

Token(shop, sub) == [present |-> TRUE, valid |-> TRUE, shop |-> shop, sub |-> sub]

BadToken == [present |-> TRUE, valid |-> FALSE, shop |-> "s1", sub |-> "u1"]

----------------------------------------------------------------------------
(* Outcomes: a returned context or a raised terminal Response              *)

Out(kind, status) == [kind |-> kind, status |-> status, isOnline |-> FALSE, shop |-> NoShop]

NoOutcome == Out("none", 0)

BeginRedirect(shop, online) ==
    [kind |-> "begin", status |-> 302, isOnline |-> online, shop |-> shop]

RaisedResponse(kind, status, shop) ==
    [kind |-> kind, status |-> status, isOnline |-> FALSE, shop |-> shop]

----------------------------------------------------------------------------
(* Configuration: AppConfig, and which strategy class serves the app       *)

Strategies == {"AuthStrategy", "AuthCodeFlowStrategy"}

Configs ==
    [strategy : Strategies, isEmbeddedApp : BOOLEAN, useOnlineTokens : BOOLEAN,
     afterAuth : BOOLEAN]

----------------------------------------------------------------------------
(* Requests                                                                *)

Paths == {"patchSessionToken", "exitIframe", "callback", "auth", "app"}

Req(method, bot, origin, path, shop, hostOk, embedded, iframe, bearer, idToken, cookieId) ==
    [kind |-> "admin", method |-> method, bot |-> bot, origin |-> origin, path |-> path,
     shop |-> shop, hostOk |-> hostOk, embedded |-> embedded, iframe |-> iframe,
     bearer |-> bearer, idToken |-> idToken, cookieId |-> cookieId,
     stateCookie |-> "none", check |-> "none", topic |-> "none", scheme |-> "https"]

NoRequest ==
    [kind |-> "none", method |-> "GET", bot |-> FALSE, origin |-> "app", path |-> "app",
     shop |-> NoShop, hostOk |-> FALSE, embedded |-> FALSE, iframe |-> FALSE,
     bearer |-> NoToken, idToken |-> NoToken, cookieId |-> NoId,
     stateCookie |-> "none", check |-> "none", topic |-> "none", scheme |-> "https"]

\* request.url as the handlers read it: scheme, path and the query params
Query(req) ==
    [shop |-> req.shop, hostOk |-> req.hostOk, embedded |-> req.embedded,
     idToken |-> req.idToken]

Url(req) == [scheme |-> req.scheme, path |-> req.path, query |-> Query(req)]

\* no Location header
NoLocation == [path |-> "none", params |-> Query(NoRequest), reload |-> Url(NoRequest)]

\* preflight and bot traffic, on any kind of path
PreflightRequests ==
    {Req(mb[1], mb[2], o, path, "s1", TRUE, FALSE, FALSE, tok, NoToken, NoId) :
        mb \in {<<"OPTIONS", FALSE>>, <<"OPTIONS", TRUE>>, <<"GET", TRUE>>},
        o \in {"app", "other", "none"},
        path \in {"callback", "app"}, tok \in {NoToken, Token("s1", "u1")}}

\* the bounce page and the exit-iframe page
BridgeRequests ==
    {Req("GET", FALSE, o, path, "s1", TRUE, TRUE, TRUE, tok, NoToken, NoId) :
        o \in {"app", "other", "none"}, path \in {"patchSessionToken", "exitIframe"},
        tok \in {NoToken, Token("s1", "u1")}}

\* OAuth begin and OAuth callback
OAuthRequests ==
    {Req("GET", FALSE, o, path, shop, TRUE, FALSE, iframe, tok, NoToken, NoId) :
        o \in {"app", "other"}, path \in {"auth", "callback"},
        shop \in {NoShop, "bad", "s1"}, iframe \in BOOLEAN,
        tok \in {NoToken, Token("s1", "u1")}}

\* fetch requests of the embedded frontend, carrying a bearer session token
BearerRequests ==
    {Req("GET", FALSE, o, "app", "s1", TRUE, emb, FALSE, tok, NoToken, cid) :
        o \in {"app", "other"}, emb \in BOOLEAN,
        tok \in {BadToken, Token("s1", "u1"), Token("s1", "u2"), Token("s2", "u1")},
        cid \in {NoId, getOfflineId("s1")}}

\* document loads
DocumentRequests ==
    {Req("GET", FALSE, "other", "app", sh[1], sh[2], emb, FALSE, NoToken, tok, cid) :
        sh \in {<<NoShop, TRUE>>, <<"bad", TRUE>>, <<"s1", FALSE>>, <<"s1", TRUE>>},
        emb \in BOOLEAN,
        tok \in {NoToken, BadToken, Token("s1", "u1"), Token("s1", "u2")},
        cid \in {NoId, getJwtSessionId("s1", "u1")}}
    \cup
    \* a document load whose request.url says http (TLS ends before the app)
    {[Req("GET", FALSE, "other", "app", "s1", TRUE, TRUE, FALSE, NoToken, NoToken, NoId)
        EXCEPT !.scheme = "http"]}

\* webhook deliveries
WebhookRequests ==
    {[NoRequest EXCEPT !.kind = "webhook", !.method = m, !.origin = "none", !.path = "webhooks",
                       !.shop = "s1", !.bearer = tok, !.check = c, !.topic = t] :
        m \in {"POST", "GET"}, c \in {"valid", "InvalidHmac", "MissingHeaders"},
        t \in {"SHOP_REDACT", "APP_UNINSTALLED"},
        tok \in {NoToken, BadToken, Token("s1", "u1")}}

AdminRequests ==
    PreflightRequests \cup BridgeRequests \cup OAuthRequests \cup BearerRequests
        \cup DocumentRequests

\* api.webhooks.validate: the validation result of a webhook delivery
WebhookCheck(req) ==
    [valid |-> (req.check = "valid"), reason |-> req.check, domain |-> req.shop,
     topic |-> req.topic, apiVersion |-> "2024-01", webhookId |-> "w1"]

NoCheck ==
    [valid |-> FALSE, reason |-> "none", domain |-> NoShop, topic |-> "none",
     apiVersion |-> "none", webhookId |-> "none"]

\* a call of setUpValidRequest that has not been made
NoTest == [store |-> NoShop, query |-> <<>>, string |-> <<>>, url |-> <<>>]

----------------------------------------------------------------------------
(* One handler invocation                                                  *)

IdleProc ==
    [pc |-> "idle", req |-> NoRequest, phase |-> "none", outcome |-> NoOutcome,
     session |-> NoSession, token |-> NoToken, sid |-> NoId, step |-> 0,
     cbResult |-> "none", error |-> "none", stores |-> 0, hooks |-> 0,
     hookSession |-> NoSession, begins |-> 0, loads |-> 0, probes |-> 0,
     validations |-> 0, exchanges |-> 0, admin |-> FALSE,
     cors |-> FALSE, maxAge |-> FALSE, location |-> NoLocation, reads |-> 0,
     found |-> FALSE, ctx |-> NoCheck, sessionToken |-> NoToken, test |-> NoTest]

NoFlow == [state |-> "NotStarted", stored |-> <<>>, trips |-> 0]

\* what session storage may hold when the app starts; an online session is
\* only ever stored after the shop's offline one
InitialStorages ==
    {st \in {[i \in SessionIds |->
                IF i = getOfflineId("s1") THEN off
                ELSE IF i = getJwtSessionId("s1", "u1") THEN on1
                ELSE IF i = getJwtSessionId("s1", "u2") THEN NewSession("s1", TRUE, "u2", 1)
                ELSE IF i = getOfflineId("s2") THEN NewSession("s2", FALSE, NoSub, 1)
                ELSE NoSession] :
              off \in StoredOffline("s1"), on1 \in StoredOnline("s1", "u1")} :
        st[getJwtSessionId("s1", "u1")] # NoSession
            => st[getOfflineId("s1")] = NewSession("s1", FALSE, NoSub, 1)}

Init ==
    /\ config \in Configs
    /\ storage \in InitialStorages
    /\ cookie = [s \in Shops |-> "none"]
    /\ flow = [s \in Shops |-> NoFlow]
    /\ proc = [p \in ProcIds |-> IdleProc]

----------------------------------------------------------------------------
(* Collaborators and helpers the strategies call                           *)

\* api.utils.sanitizeShop: the shop when it is a valid shop domain, else null
sanitizeShop(shop) == IF shop \in Shops THEN shop ELSE NoShop

\* helpers.getSessionTokenHeader: the bearer token of the Authorization header
getSessionTokenHeader(req) == req.bearer

\* api.session.getCurrentId: the session id the request's session cookie names
getCurrentId(req) == req.cookieId

\* config.sessionStorage.loadSession
loadFromStorage(store, id) == IF id \in SessionIds THEN store[id] ELSE NoSession

\* helpers.beginAuth: raises the redirect to the platform's authorize URL
beginAuth(shop, isOnline) == BeginRedirect(shop, isOnline)

\* helpers.redirectWithExitIframe: raises the break-out-of-iframe redirect
redirectWithExitIframe(shop) == RaisedResponse("exitIframeRedirect", 302, shop)

\* helpers.redirectToAuthPage: raises the redirect into the OAuth begin flow
redirectToAuthPage(shop) == RaisedResponse("authPage", 302, shop)

\* helpers.validateSessionToken: the payload, or a raised 4xx for a bad token
InvalidTokenStatus == 401

invalidSessionToken == Out("invalidToken", InvalidTokenStatus)

\* api.auth.callback (OAuth Flow Engine): cookie, then HMAC, then state and
\* shop, then the code exchange; the session is online or offline as the
\* cookie of the begun phase says
authCallback(req, env, shop) ==
    IF req.stateCookie = "none" THEN [error |-> "CookieNotFound", session |-> NoSession]
    ELSE IF ~env.hmacOk THEN [error |-> "InvalidHmacError", session |-> NoSession]
    ELSE IF ~env.stateOk THEN [error |-> "InvalidOAuthError", session |-> NoSession]
    ELSE IF ~env.exchangeOk THEN [error |-> "HttpResponseError", session |-> NoSession]
    ELSE [error |-> "none",
          session |-> NewSession(shop, req.stateCookie = "online", env.sub, env.code)]

\* what the platform and the query string hold for one callback
CallbackEnvs ==
    [hmacOk : BOOLEAN, stateOk : BOOLEAN, exchangeOk : BOOLEAN, sub : {"u1"}, code : Codes]

----------------------------------------------------------------------------
(* AuthStrategy / AuthCodeFlowStrategy: the synchronous decisions          *)

\* a dispatch that looks at the bearer header before the paths
dispatchPhaseHeaderFirst(req) ==
    IF getSessionTokenHeader(req).present THEN "bearer"
    ELSE IF req.path = "patchSessionToken" THEN "bounce"
    ELSE IF req.path = "exitIframe" THEN "exitIframe"
    ELSE IF req.path = "callback" THEN "callback"
    ELSE IF req.path = "auth" THEN "begin"
    ELSE "document"

\* authenticateAndGetSessionContext, lines 104-139: the branch that runs
dispatchPhase(req) ==
    IF req.path = "patchSessionToken" THEN "bounce"
    ELSE IF req.path = "exitIframe" THEN "exitIframe"
    ELSE IF req.path = "callback" THEN "callback"
    ELSE IF req.path = "auth" THEN "begin"
    ELSE IF getSessionTokenHeader(req).present THEN "bearer"
    ELSE "document"

\* a begin handler that leaves the iframe for every app configuration
handleAuthBeginRequestAnyConfig(cfg, req, shop) ==
    IF req.iframe
    THEN redirectWithExitIframe(shop)
    ELSE beginAuth(shop, FALSE)

\* handleAuthBeginRequest: out of the iframe first, else begin in offline mode
handleAuthBeginRequest(cfg, req, shop) ==
    IF cfg.isEmbeddedApp /\ req.iframe
    THEN redirectWithExitIframe(shop)
    ELSE beginAuth(shop, FALSE)

\* a catch block that knows InvalidHmacError but not InvalidOAuthError
oauthCallbackErrorHmacOnly(cfg, req, shop, error) ==
    IF error = "CookieNotFound" THEN handleAuthBeginRequest(cfg, req, shop)
    ELSE IF error = "InvalidHmacError" THEN Out("status", 400)
    ELSE Out("status", 500)

\* a catch block that answers 400 to every error but CookieNotFound
oauthCallbackErrorAlways400(cfg, req, shop, error) ==
    IF error = "CookieNotFound" THEN handleAuthBeginRequest(cfg, req, shop)
    ELSE Out("status", 400)

\* the catch block of handleAuthCallbackRequest / oauthCallbackError
oauthCallbackError(cfg, req, shop, error) ==
    IF error = "CookieNotFound" THEN handleAuthBeginRequest(cfg, req, shop)
    ELSE IF error \in {"InvalidHmacError", "InvalidOAuthError"} THEN Out("status", 400)
    ELSE Out("status", 500)

\* a try block that runs the hook before it stores the session
callbackStepsHookFirst == <<"hook", "store", "online", "redirect">>

\* a try block that runs the hook before it begins the online flow
callbackStepsHookBeforeOnline == <<"store", "hook", "online", "redirect">>

\* the try block of handleAuthCallbackRequest after api.auth.callback returned
callbackSteps == <<"store", "online", "hook", "redirect">>

\* a check that forgets to look at session.isOnline
needsOnlineFlowAnySession(cfg, session) == cfg.useOnlineTokens

\* a check that forgets to look at config.useOnlineTokens
needsOnlineFlowAnyConfig(cfg, session) == ~session.isOnline

\* needs a second, online-mode flow: lines 177-180 / 244-247
needsOnlineFlow(cfg, session) == cfg.useOnlineTokens /\ ~session.isOnline

\* redirectToShopifyOrAppRoot: the embedded app URL, or the app root
redirectToShopifyOrAppRoot(cfg, shop) ==
    IF cfg.isEmbeddedApp
    THEN RaisedResponse("embeddedAppUrl", 302, shop)
    ELSE RaisedResponse("appRoot", 302, shop)

\* a validator that never looks at the host param
validateUrlParamsShopOnly(cfg, req) ==
    IF sanitizeShop(req.shop) = NoShop THEN Out("login", 302) ELSE NoOutcome

\* validateUrlParams: NoOutcome when the params pass
validateUrlParams(cfg, req) ==
    IF cfg.strategy = "AuthStrategy"
    THEN IF sanitizeShop(req.shop) = NoShop THEN Out("login", 302)
         ELSE IF cfg.isEmbeddedApp /\ ~req.hostOk THEN Out("login", 302)
         ELSE NoOutcome
    ELSE IF cfg.isEmbeddedApp
         THEN IF sanitizeShop(req.shop) = NoShop THEN Out("login", 302)
              ELSE IF ~req.hostOk THEN Out("login", 302)
              ELSE NoOutcome
         ELSE NoOutcome

\* the session id an authenticated session token stands for
\* an id that always names the user
tokenSessionIdAlwaysJwt(cfg, payload) ==
    getJwtSessionId(payload.shop, payload.sub)

tokenSessionId(cfg, payload) ==
    IF cfg.useOnlineTokens
    THEN getJwtSessionId(payload.shop, payload.sub)
    ELSE getOfflineId(payload.shop)

\* a load that checks only that a session was found
sessionWasFound(session) == session # NoSession

\* loadSession, lines 440-452 / authenticate, lines 93-103
sessionIsUsable(session) == session # NoSession /\ isActive(session)

----------------------------------------------------------------------------
(* Ending a handler: a raised Response or a returned context               *)

\* throw new Response(...): the handler ends with the response
Throw(pr, out) ==
    [pr EXCEPT !.pc = "done", !.outcome = out,
               !.begins = IF out.kind = "begin" THEN @ + 1 ELSE @]

\* config.appUrl, as the Origin header of a same-origin request
AppUrl == "app"

\* ensureCORSHeaders, lines 525-537: a missing Origin header differs too
ensureCORSHeaders(req, pr) == [pr EXCEPT !.cors = (req.origin # AppUrl)]

\* a Response thrown under authenticateAndGetSessionContext passes the catch
\* block of authenticateAdmin, lines 73-79; webhook authentication has none
Raise(pr, out) ==
    IF pr.req.kind = "admin"
    THEN ensureCORSHeaders(pr.req, Throw(pr, out))
    ELSE Throw(pr, out)

Return(pr, session) ==
    [pr EXCEPT !.pc = "done", !.outcome = Out("context", 200), !.session = session]

\* a context that carries the token payload whatever the configuration
adminContextAlwaysToken(cfg, pr) == [pr EXCEPT !.sessionToken = pr.token]

\* authenticateAdmin, lines 81-94: sessionToken is part of the context only
\* for an embedded app
adminContext(cfg, pr) ==
    [pr EXCEPT !.sessionToken = IF cfg.isEmbeddedApp THEN pr.token ELSE NoToken]

FinalRedirects == {"embeddedAppUrl", "appRoot"}

\* OAuth Flow Engine states: what an outcome means for the shop's flow
flowAfter(fl, pr) ==
    LET out == pr.outcome IN
    IF pr.pc # "done" THEN fl
    ELSE IF out.kind = "begin" /\ out.shop \in Shops
    THEN [fl EXCEPT ![out.shop] =
            IF out.isOnline THEN [@ EXCEPT !.state = "Began"]
            ELSE [state |-> "Began", stored |-> <<>>, trips |-> 0]]
    ELSE IF pr.phase = "callback" /\ pr.cbResult \notin {"none", "CookieNotFound"}
    THEN [fl EXCEPT ![pr.req.shop] =
            [@ EXCEPT !.state = IF pr.step = Len(callbackSteps) /\ out.kind \in FinalRedirects
                                THEN "Completed" ELSE "Failed"]]
    ELSE fl

\* the flow's record of a session the callback stored
flowStored(f, session) ==
    LET mode == IF session.isOnline THEN "online" ELSE "offline" IN
    [f EXCEPT !.stored = IF \E i \in 1..Len(@) : @[i] = mode THEN @ ELSE Append(@, mode),
              !.trips = IF @ < MaxTrips THEN @ + 1 ELSE @]

Step(p, pr) ==
    /\ proc' = [proc EXCEPT ![p] = pr]
    /\ flow' = flowAfter(flow, pr)

----------------------------------------------------------------------------
(* authenticateAdmin: from the request to the first await                  *)

\* an entry point that never consults the bot detector
preflightOptionsOnly(cfg, req) ==
    IF req.method = "OPTIONS" THEN Out("options", 204) ELSE NoOutcome

\* rejectBotRequest and respondToOptionsRequest, in the order the entry point
\* runs them; NoOutcome when the request passes both
preflight(cfg, req) ==
    IF cfg.strategy = "AuthStrategy"
    THEN IF req.bot THEN Out("botRejected", 410)
         ELSE IF req.method = "OPTIONS" THEN Out("options", 204)
         ELSE NoOutcome
    ELSE IF req.method = "OPTIONS" THEN Out("options", 204)
         ELSE IF req.bot THEN Out("botRejected", 410)
         ELSE NoOutcome

\* a response thrown by rejectBotRequest or respondToOptionsRequest, lines
\* 67-68: AuthStrategy throws it before the try block; the AuthCodeFlowStrategy
\* entry point decorates every terminal response
respondBeforeTry(cfg, pr, out) ==
    LET thrown == [Throw(pr, out) EXCEPT !.maxAge = (out.kind = "options")] IN
    IF cfg.strategy = "AuthStrategy" THEN thrown ELSE ensureCORSHeaders(pr.req, thrown)

\* validateAuthenticatedSession / getSessionTokenContext: the id to load
resolveSession(cfg, pr, rawToken, viaHeader) ==
    IF cfg.isEmbeddedApp \/ (cfg.strategy = "AuthStrategy" /\ viaHeader)
    THEN IF ~rawToken.valid
         THEN [Raise(pr, invalidSessionToken) EXCEPT !.validations = @ + 1]
         ELSE [pr EXCEPT !.pc = "load", !.validations = @ + 1, !.token = rawToken,
                         !.sid = tokenSessionId(cfg, rawToken)]
    ELSE IF getCurrentId(pr.req) = NoId
         THEN Raise(pr, beginAuth(pr.req.shop, FALSE))
         ELSE [pr EXCEPT !.pc = "load", !.sid = getCurrentId(pr.req)]

\* hasValidOfflineId, lines 282-293
hasValidOfflineId(req) == req.shop # NoShop \/ getCurrentId(req) # NoId

authenticateAdmin(cfg, pr0) ==
    LET req == pr0.req
        phase == dispatchPhase(req)
        pr == [pr0 EXCEPT !.phase = phase]
        shop == sanitizeShop(req.shop)
    IN
    IF preflight(cfg, req) # NoOutcome THEN respondBeforeTry(cfg, pr0, preflight(cfg, req))
    ELSE IF phase = "bounce" THEN Raise(pr, Out("bridgePage", 200))
    ELSE IF phase = "exitIframe" THEN Raise(pr, Out("exitIframePage", 200))
    ELSE IF phase \in {"callback", "begin"} /\ shop = NoShop THEN Raise(pr, Out("status", 400))
    ELSE IF phase = "callback" THEN [pr EXCEPT !.pc = "callback"]
    ELSE IF phase = "begin" THEN Raise(pr, handleAuthBeginRequest(cfg, req, shop))
    ELSE IF phase = "bearer" THEN resolveSession(cfg, pr, getSessionTokenHeader(req), TRUE)
    ELSE IF validateUrlParams(cfg, req) # NoOutcome THEN Raise(pr, validateUrlParams(cfg, req))
    ELSE IF cfg.strategy = "AuthCodeFlowStrategy" /\ ~hasValidOfflineId(req)
    THEN Raise(pr, Out("status", 400))
    ELSE [pr EXCEPT !.pc = "installed"]

\* a request arrives
Receive(p, req) ==
    /\ proc[p].pc = "idle"
    /\ proc' = [proc EXCEPT ![p] = [IdleProc EXCEPT !.pc = "start", !.req = req]]
    /\ UNCHANGED <<config, storage, cookie, flow>>

\* a callback request carries the browser's state cookie, unless the browser lost it
ReceiveFrom(p, requests) ==
    \E req \in requests :
        IF req.path = "callback" /\ req.shop \in Shops
        THEN \E c \in {"none", cookie[req.shop]} : Receive(p, [req EXCEPT !.stateCookie = c])
        ELSE Receive(p, req)

ReceiveAdmin(p) == ReceiveFrom(p, AdminRequests)

Dispatch(p) ==
    /\ proc[p].pc = "start"
    /\ proc[p].req.kind = "admin"
    /\ Step(p, authenticateAdmin(config, proc[p]))
    /\ UNCHANGED <<config, storage, cookie>>

----------------------------------------------------------------------------
(* handleAuthCallbackRequest                                               *)

\* a handler that treats only CookieNotFound as a failed callback
afterCallbackCookieOnly(cfg, pr, res) ==
    LET shop == sanitizeShop(pr.req.shop)
        called == [pr EXCEPT !.cbResult = IF res.error = "none" THEN "ok" ELSE res.error,
                             !.error = res.error]
    IN
    IF res.error = "CookieNotFound"
    THEN Raise(called, handleAuthBeginRequest(cfg, pr.req, shop))
    ELSE [called EXCEPT !.pc = "try", !.step = 1,
                        !.session = NewSession(shop, pr.req.stateCookie = "online", "u1", 1)]

\* lines 170-176 and 191-214: the statements after the await run only when
\* api.auth.callback returned; a throw goes to the catch block
afterCallback(cfg, pr, res) ==
    LET shop == sanitizeShop(pr.req.shop)
        called == [pr EXCEPT !.cbResult = IF res.error = "none" THEN "ok" ELSE res.error,
                             !.error = res.error]
    IN
    IF res.error = "none"
    THEN [called EXCEPT !.pc = "try", !.step = 1, !.session = res.session]
    ELSE Raise(called, oauthCallbackError(cfg, pr.req, shop, res.error))

\* await api.auth.callback({rawRequest: request})
\* a storage that keeps the session it already holds under the id
storeSessionIfAbsent(store, session) ==
    IF store[session.id] = NoSession
    THEN [store EXCEPT ![session.id] = session]
    ELSE store

\* sessionStorage.storeSession: one write under the session's id that
\* replaces what was stored there
storeSession(store, session) == [store EXCEPT ![session.id] = session]

\* await api.auth.callback({rawRequest: request}), with what the platform
\* answers drawn from envs
CallbackCallWith(p, envs) ==
    LET pr == proc[p] IN
    /\ pr.pc = "callback"
    /\ \E env \in envs :
         Step(p, afterCallback(config, pr, authCallback(pr.req, env, sanitizeShop(pr.req.shop))))
    /\ UNCHANGED <<config, storage, cookie>>

CallbackCall(p) == CallbackCallWith(p, CallbackEnvs)

AtStep(p, name) ==
    /\ proc[p].pc = "try"
    /\ proc[p].step \in 1..Len(callbackSteps)
    /\ callbackSteps[proc[p].step] = name

\* await config.sessionStorage.storeSession(session)
CallbackStore(p) ==
    LET pr == proc[p] IN
    /\ AtStep(p, "store")
    /\ \/ /\ storage' = storeSession(storage, pr.session)
          /\ proc' = [proc EXCEPT ![p] = [pr EXCEPT !.stores = @ + 1, !.step = @ + 1]]
          /\ flow' = [flow EXCEPT ![pr.session.shop] = flowStored(@, pr.session)]
       \/ /\ Step(p, Raise([pr EXCEPT !.error = "StorageError"],
                            oauthCallbackError(config, pr.req, pr.session.shop, "StorageError")))
          /\ UNCHANGED storage
    /\ UNCHANGED <<config, cookie>>

\* if (config.useOnlineTokens && !session.isOnline) await beginAuth(..., true, shop)
CallbackOnline(p) ==
    LET pr == proc[p] IN
    /\ AtStep(p, "online")
    /\ IF needsOnlineFlow(config, pr.session)
       THEN Step(p, Raise(pr, beginAuth(pr.session.shop, TRUE)))
       ELSE Step(p, [pr EXCEPT !.step = @ + 1])
    /\ UNCHANGED <<config, storage, cookie>>

\* await config.hooks.afterAuth({session, admin}) / triggerAfterAuthHook
CallbackHook(p) ==
    LET pr == proc[p] IN
    /\ AtStep(p, "hook")
    /\ IF config.afterAuth
       THEN LET run == [pr EXCEPT !.hooks = @ + 1, !.hookSession = pr.session] IN
            \/ Step(p, [run EXCEPT !.step = @ + 1])
            \/ Step(p, Raise([run EXCEPT !.error = "HookError"],
                             oauthCallbackError(config, pr.req, pr.session.shop, "HookError")))
            \/ Step(p, Raise([run EXCEPT !.error = "Response"], Out("hookResponse", 503)))
       ELSE Step(p, [pr EXCEPT !.step = @ + 1])
    /\ UNCHANGED <<config, storage, cookie>>

\* throw await this.redirectToShopifyOrAppRoot(request, responseHeaders)
CallbackRedirect(p) ==
    LET pr == proc[p] IN
    /\ AtStep(p, "redirect")
    /\ Step(p, Raise(pr, redirectToShopifyOrAppRoot(config, pr.session.shop)))
    /\ UNCHANGED <<config, storage, cookie>>

----------------------------------------------------------------------------
(* The document path: ensureInstalledOnShop and what follows               *)

\* api.config.hostScheme
HostScheme == "https"

\* redirectToBouncePage, lines 472-487: url.protocol is set to the host scheme
\* before url.href is read, the query is copied and shopify-reload set on it
bounceLocation(url) ==
    [path |-> "patchSessionToken", params |-> url.query,
     reload |-> [url EXCEPT !.scheme = HostScheme]]

redirectToBouncePage(pr) ==
    [Raise(pr, RaisedResponse("bounceRedirect", 302, pr.req.shop))
        EXCEPT !.location = bounceLocation(Url(pr.req))]

\* ensureAppIsEmbeddedIfRequired with the embedded check dropped
afterInstalledNoEmbedCheck(cfg, pr) ==
    IF cfg.isEmbeddedApp /\ ~pr.req.idToken.present
    THEN redirectToBouncePage(pr)
    ELSE resolveSession(cfg, pr, pr.req.idToken, FALSE)

\* ensureAppIsEmbeddedIfRequired, ensureSessionTokenSearchParamIfRequired,
\* then ensureSessionExists / authenticate
afterInstalled(cfg, pr) ==
    IF cfg.isEmbeddedApp /\ ~pr.req.embedded
    THEN Raise(pr, redirectToShopifyOrAppRoot(cfg, pr.req.shop))
    ELSE IF cfg.isEmbeddedApp /\ ~pr.req.idToken.present
    THEN redirectToBouncePage(pr)
    ELSE resolveSession(cfg, pr, pr.req.idToken, FALSE)

\* the id ensureInstalledOnShop loads: getOfflineId(shop), or getOfflineSession
offlineIdOf(cfg, req) ==
    IF cfg.strategy = "AuthStrategy" \/ req.shop # NoShop
    THEN getOfflineId(req.shop)
    ELSE getCurrentId(req)

\* an install check that begins OAuth inside the iframe
notInstalledAlwaysBegin(req) == beginAuth(req.shop, FALSE)

\* lines 254-263 / 128-137: the shop has no offline session
notInstalled(req) ==
    IF req.embedded
    THEN redirectWithExitIframe(req.shop)
    ELSE beginAuth(req.shop, FALSE)

\* a probe on every document load of an embedded app
needsProbeAlways(cfg, req) == cfg.isEmbeddedApp

\* lines 265 / 141: whether the offline session is tested
needsProbe(cfg, req) == cfg.isEmbeddedApp /\ ~req.embedded

\* await config.sessionStorage.loadSession(api.session.getOfflineId(shop))
InstalledLoad(p) ==
    LET pr == [proc[p] EXCEPT !.loads = @ + 1]
        offlineSession == loadFromStorage(storage, offlineIdOf(config, pr.req))
    IN
    /\ proc[p].pc = "installed"
    /\ IF offlineSession = NoSession
       THEN Step(p, Raise(pr, notInstalled(pr.req)))
       ELSE IF needsProbe(config, pr.req)
            THEN Step(p, [pr EXCEPT !.pc = "probe", !.session = offlineSession])
            ELSE Step(p, afterInstalled(config, pr))
    /\ UNCHANGED <<config, storage, cookie>>

ProbeResults == {"ok", "http401", "httpOther", "graphql", "other"}

\* error.response.code of an HttpResponseError that is not a 401
UpstreamStatus == 503

\* a catch block that answers every failure but the 401 with a 500
handleInvalidOfflineSessionAll500(cfg, pr0, result) ==
    LET pr == [pr0 EXCEPT !.error = IF result = "ok" THEN "none" ELSE result] IN
    IF result = "http401" THEN Raise(pr, beginAuth(pr.req.shop, FALSE))
    ELSE IF result = "ok" THEN afterInstalled(cfg, [pr EXCEPT !.session = NoSession])
    ELSE Raise(pr, Out("status", 500))

\* the catch block around testSession / handleInvalidOfflineSession
handleInvalidOfflineSession(cfg, pr0, result) ==
    LET pr == [pr0 EXCEPT !.error = IF result = "ok" THEN "none" ELSE result] IN
    IF result = "http401" THEN Raise(pr, beginAuth(pr.req.shop, FALSE))
    ELSE IF result = "httpOther" THEN Raise(pr, Out("status", UpstreamStatus))
    ELSE IF result = "graphql" THEN Raise(pr, Out("status", 500))
    ELSE afterInstalled(cfg, [pr EXCEPT !.session = NoSession])

\* await this.testSession(offlineSession)
Probe(p) ==
    /\ proc[p].pc = "probe"
    /\ \E result \in ProbeResults :
         Step(p, handleInvalidOfflineSession(config, [proc[p] EXCEPT !.probes = @ + 1], result))
    /\ UNCHANGED <<config, storage, cookie>>

\* the shop loadSession reports when it redirects
loadShop(cfg, pr) == IF pr.token.present THEN pr.token.shop ELSE pr.req.shop

\* await config.sessionStorage.loadSession(sessionId), then the isActive check
LoadSession(p) ==
    LET pr == [proc[p] EXCEPT !.loads = @ + 1]
        session == loadFromStorage(storage, pr.sid)
    IN
    /\ proc[p].pc = "load"
    /\ IF sessionIsUsable(session)
       THEN Step(p, adminContext(config, Return(pr, session)))
       ELSE Step(p, Raise(pr, redirectToAuthPage(loadShop(config, pr))))
    /\ UNCHANGED <<config, storage, cookie>>

----------------------------------------------------------------------------
(* Webhook authentication: authenticateWebhookFactory                      *)

ReceiveWebhook(p) == \E req \in WebhookRequests : Receive(p, req)

\* a context that always builds the admin handle
webhookContextAlwaysAdmin(pr, session) ==
    [pr EXCEPT !.pc = "done", !.outcome = Out("webhookContext", 200),
               !.session = session, !.admin = TRUE,
               !.ctx = WebhookCheck(pr.req)]

\* the webhook context the handler returns, lines 90-112
webhookContext(pr, session) ==
    [pr EXCEPT !.pc = "done", !.outcome = Out("webhookContext", 200),
               !.session = session, !.admin = (session # NoSession),
               !.ctx = WebhookCheck(pr.req)]

\* a handler that answers every failed validation with a 400
checkWebhookAlways400(pr0) ==
    LET pr == [pr0 EXCEPT !.reads = @ + 1, !.validations = @ + 1] IN
    IF pr.req.check # "valid"
    THEN Raise([pr EXCEPT !.error = pr.req.check], Out("status", 400))
    ELSE [pr EXCEPT !.pc = "webhookLoad"]

\* lines 42-60: request.text(), api.webhooks.validate and its failure mapping
checkWebhook(pr0) ==
    LET pr == [pr0 EXCEPT !.reads = @ + 1, !.validations = @ + 1] IN
    IF pr.req.check = "InvalidHmac"
    THEN Raise([pr EXCEPT !.error = "InvalidHmac"], Out("status", 401))
    ELSE IF pr.req.check # "valid"
    THEN Raise([pr EXCEPT !.error = pr.req.check], Out("status", 400))
    ELSE [pr EXCEPT !.pc = "webhookLoad"]

\* a handler that checks the method only after the signature
validateWebhookMethodLast(pr) ==
    LET checked == checkWebhook(pr) IN
    IF checked.pc = "done" THEN checked
    ELSE IF pr.req.method # "POST" THEN Raise(checked, Out("status", 405))
    ELSE checked

\* lines 31-60: the method check, then the body and api.webhooks.validate
validateWebhook(pr) ==
    IF pr.req.method # "POST" THEN Raise(pr, Out("status", 405))
    ELSE checkWebhook(pr)

WebhookStart(p) ==
    /\ proc[p].pc = "start"
    /\ proc[p].req.kind = "webhook"
    /\ Step(p, validateWebhook([proc[p] EXCEPT !.phase = "webhook"]))
    /\ UNCHANGED <<config, storage, cookie>>

\* a recovery that is tried for every topic
wantsTokenExchangeAnyTopic(req, session) ==
    session = NoSession /\ getSessionTokenHeader(req).present

\* lines 62-88: whether a token exchange is attempted
wantsTokenExchange(req, session) ==
    session = NoSession /\ req.topic # "SHOP_REDACT" /\ getSessionTokenHeader(req).present

\* let session = await createOrLoadOfflineSession(check.domain, params)
WebhookLoad(p) ==
    LET session == loadFromStorage(storage, getOfflineId(proc[p].req.shop))
        pr == [proc[p] EXCEPT !.loads = @ + 1, !.found = (session # NoSession)]
    IN
    /\ proc[p].pc = "webhookLoad"
    /\ IF wantsTokenExchange(pr.req, session)
       THEN Step(p, [pr EXCEPT !.pc = "exchange"])
       ELSE Step(p, webhookContext(pr, session))
    /\ UNCHANGED <<config, storage, cookie>>

\* api.auth.tokenExchange: a session, or InvalidJwt, InvalidShop, or a network failure
TokenExchangeResults(token) ==
    IF token.valid THEN {"ok", "InvalidShopError", "NetworkError"} ELSE {"InvalidJwtError"}

\* a catch block that swallows every failure of the exchange
tokenExchangeFailedSwallowsAll(pr, error) ==
    webhookContext([pr EXCEPT !.error = error], NoSession)

\* the outer catch of getSessionFromTokenExchange, lines 144-158
tokenExchangeFailed(pr, error) ==
    IF error \in {"InvalidJwtError", "InvalidShopError"}
    THEN Raise([pr EXCEPT !.error = error], Out("status", 400))
    ELSE webhookContext([pr EXCEPT !.error = error], NoSession)

\* await api.auth.tokenExchange({shop, sessionToken, requestedTokenType})
WebhookExchange(p) ==
    LET pr == [proc[p] EXCEPT !.exchanges = @ + 1] IN
    /\ proc[p].pc = "exchange"
    /\ \E result \in TokenExchangeResults(pr.req.bearer), code \in Codes :
         IF result = "ok"
         THEN Step(p, [pr EXCEPT !.pc = "exchangeStore",
                                 !.session = NewSession(pr.req.shop, FALSE, NoSub, code)])
         ELSE Step(p, tokenExchangeFailed(pr, result))
    /\ UNCHANGED <<config, storage, cookie>>

\* a recovery that gives up the session it could not store
storeFailedDropsSession(pr) ==
    webhookContext([pr EXCEPT !.error = "StorageError"], NoSession)

\* lines 139-143: the inner catch logs the failed store, then return session
storeFailed(pr) ==
    webhookContext([pr EXCEPT !.error = "StorageError"], pr.session)

\* lines 137-143: the store in its own try/catch, then return session
WebhookStore(p) ==
    LET pr == proc[p] IN
    /\ pr.pc = "exchangeStore"
    /\ \/ /\ storage' = storeSession(storage, pr.session)
          /\ Step(p, webhookContext([pr EXCEPT !.stores = @ + 1], pr.session))
       \/ /\ Step(p, storeFailed(pr))
          /\ UNCHANGED storage
    /\ UNCHANGED <<config, cookie>>

----------------------------------------------------------------------------
(* The response reaches the browser                                        *)

Respond(p) ==
    LET pr == proc[p]
        out == pr.outcome
    IN
    /\ pr.pc = "done"
    /\ proc' = [proc EXCEPT ![p] = IdleProc]
    /\ IF out.kind = "begin" /\ out.shop \in Shops
       THEN /\ cookie' = [cookie EXCEPT ![out.shop] = IF out.isOnline THEN "online" ELSE "offline"]
            /\ flow' = [flow EXCEPT ![out.shop] = [@ EXCEPT !.state = "AwaitingCallback"]]
       ELSE IF pr.phase = "callback" /\ pr.cbResult \notin {"none", "CookieNotFound"}
       THEN /\ cookie' = [cookie EXCEPT ![pr.req.shop] = "none"]
            /\ UNCHANGED flow
       ELSE UNCHANGED <<cookie, flow>>
    /\ UNCHANGED <<config, storage>>

MainProcs == {1}

Next ==
    \E p \in MainProcs :
        \/ ReceiveAdmin(p)
        \/ ReceiveWebhook(p)
        \/ Dispatch(p)
        \/ WebhookStart(p)
        \/ WebhookLoad(p)
        \/ WebhookExchange(p)
        \/ WebhookStore(p)
        \/ CallbackCall(p)
        \/ CallbackStore(p)
        \/ CallbackOnline(p)
        \/ CallbackHook(p)
        \/ CallbackRedirect(p)
        \/ InstalledLoad(p)
        \/ Probe(p)
        \/ LoadSession(p)
        \/ Respond(p)

Spec == Init /\ [][Next]_vars

----------------------------------------------------------------------------
(* The OAuth flow of one browser, with the scheduling its progress needs   *)

\* the requests of a browser that is installing the app: the begin and the
\* callback path, well formed or not
ReceiveOAuth(p) == ReceiveFrom(p, OAuthRequests)

\* the platform sends the browser back to the callback path, and the browser
\* sends the state cookie the begin response set
DeliverCallback(p, phase) ==
    \E req \in OAuthRequests :
        /\ req.path = "callback"
        /\ req.shop \in Shops
        /\ cookie[req.shop] = phase
        /\ Receive(p, [req EXCEPT !.stateCookie = cookie[req.shop]])

NextFlow ==
    \E p \in MainProcs :
        \/ ReceiveOAuth(p)
        \/ Dispatch(p)
        \/ CallbackCall(p)
        \/ CallbackStore(p)
        \/ CallbackOnline(p)
        \/ CallbackHook(p)
        \/ CallbackRedirect(p)
        \/ Respond(p)

\* a handler that started runs to its response (every await settles), the
\* response reaches the browser, and the platform delivers the callback of
\* each begun phase, offline and online, with the cookie of that phase
FlowFairness ==
    \A p \in MainProcs :
        /\ WF_vars(Dispatch(p))
        /\ WF_vars(CallbackCall(p))
        /\ WF_vars(CallbackStore(p))
        /\ WF_vars(CallbackOnline(p))
        /\ WF_vars(CallbackHook(p))
        /\ WF_vars(CallbackRedirect(p))
        /\ WF_vars(Respond(p))
        /\ SF_vars(DeliverCallback(p, "offline"))
        /\ SF_vars(DeliverCallback(p, "online"))

SpecFlowFair == Init /\ [][NextFlow]_vars /\ FlowFairness

----------------------------------------------------------------------------
(* Properties                                                              *)

Finished(p) == proc[p].pc = "done"

\* C1: when admin authentication returns a session context (bearer or
\* document path, either strategy), the session is the one stored under the
\* id derived from the token (or from the session cookie), and it is active:
\* not expired, scope sufficient. When the session under the derived id is
\* missing or inactive the outcome is the redirect into the OAuth begin flow.
C1_ReturnedSessionIsStoredAndActive ==
    \A p \in ProcIds :
        LET pr == proc[p] IN
        (Finished(p) /\ pr.req.kind = "admin") =>
            /\ pr.outcome.kind = "context" =>
                 /\ pr.phase \in {"bearer", "document"}
                 /\ pr.sid \in SessionIds
                 /\ pr.session = storage[pr.sid]
                 /\ pr.session.id = pr.sid
                 /\ ~pr.session.expired
                 /\ pr.session.scopeOk
                 /\ pr.token.present =>
                      pr.sid = IF config.useOnlineTokens
                               THEN <<pr.token.shop, pr.token.sub>>
                               ELSE <<"offline", pr.token.shop>>
                 /\ ~pr.token.present => pr.sid = pr.req.cookieId
            /\ ( /\ pr.sid # NoId
                 /\ \/ pr.sid \notin SessionIds
                    \/ storage[pr.sid] = NoSession
                    \/ storage[pr.sid].expired
                    \/ ~storage[pr.sid].scopeOk )
                 => pr.outcome.kind = "authPage"

C1_Witness ==
    \E p \in ProcIds :
        /\ Finished(p)
        /\ proc[p].phase = "bearer"
        /\ proc[p].outcome.kind = "context"
        /\ config.strategy = "AuthCodeFlowStrategy"
        /\ config.useOnlineTokens

\* C2: the phase that runs is the first that matches, in the order bounce
\* path, exit-iframe path, callback path, begin path, bearer header, document
\* load; only that phase's work is done: an OAuth request never has its
\* bearer token validated or a session loaded, and the document checks run
\* only for a request that matches none of the earlier conditions.
C2_FirstMatchingPhaseRuns ==
    \A p \in ProcIds :
        LET pr == proc[p]
            req == pr.req
        IN
        (req.kind = "admin" /\ pr.phase # "none") =>
            /\ pr.phase = IF req.path = "patchSessionToken" THEN "bounce"
                          ELSE IF req.path = "exitIframe" THEN "exitIframe"
                          ELSE IF req.path = "callback" THEN "callback"
                          ELSE IF req.path = "auth" THEN "begin"
                          ELSE IF req.bearer.present THEN "bearer"
                          ELSE "document"
            /\ pr.phase \in {"bounce", "exitIframe", "begin", "callback"} =>
                 pr.validations = 0 /\ pr.loads = 0 /\ pr.probes = 0 /\ pr.token = NoToken
            /\ pr.phase # "callback" =>
                 pr.cbResult = "none" /\ pr.stores = 0 /\ pr.hooks = 0
            /\ pr.phase \in {"bounce", "exitIframe"} => pr.begins = 0
            /\ pr.phase = "bearer" => pr.probes = 0
            /\ (pr.probes > 0 \/ pr.pc = "installed") => pr.phase = "document"

C2_Witness ==
    \E p \in ProcIds :
        /\ Finished(p)
        /\ proc[p].req.path = "callback"
        /\ proc[p].req.bearer.present
        /\ proc[p].phase = "callback"
        /\ proc[p].cbResult = "ok"

\* C3: a trust-violating error (InvalidHmac or InvalidOAuth from the OAuth
\* callback, InvalidHmac from webhook validation, InvalidJwt or InvalidShop
\* from the webhook token exchange) ends the request in a 4xx response: no
\* context is returned, the status is not 5xx, and the request stored nothing.
TrustViolations ==
    {"InvalidJwtError", "InvalidShopError", "InvalidHmacError", "InvalidOAuthError",
     "InvalidHmac"}

C3_TrustViolationIs4xx ==
    \A p \in ProcIds :
        LET pr == proc[p] IN
        (Finished(p) /\ pr.error \in TrustViolations) =>
            /\ pr.outcome.status >= 400
            /\ pr.outcome.status <= 499
            /\ pr.outcome.kind \notin {"context", "webhookContext"}
            /\ pr.stores = 0

C3_Witness ==
    \E p \in ProcIds :
        /\ Finished(p)
        /\ proc[p].phase = "callback"
        /\ proc[p].error = "InvalidOAuthError"
        /\ proc[p].outcome.status = 400

\* C4: the failure mapping of the OAuth callback: CookieNotFound gives what a
\* begin request gives; InvalidHmacError and InvalidOAuthError give 400; any
\* other exception (code exchange, session storage, afterAuth hook) gives
\* 500; a Response thrown by a collaborator is the outcome, unchanged.
C4_CallbackFailureMapping ==
    \A p \in ProcIds :
        LET pr == proc[p]
            shop == pr.req.shop
        IN
        (Finished(p) /\ pr.phase = "callback" /\ pr.error # "none") =>
            /\ pr.error \in {"CookieNotFound", "InvalidHmacError", "InvalidOAuthError",
                             "HttpResponseError", "StorageError", "HookError", "Response"}
            /\ pr.error = "CookieNotFound" =>
                 pr.outcome = IF config.isEmbeddedApp /\ pr.req.iframe
                              THEN RaisedResponse("exitIframeRedirect", 302, shop)
                              ELSE BeginRedirect(shop, FALSE)
            /\ pr.error \in {"InvalidHmacError", "InvalidOAuthError"} =>
                 pr.outcome = Out("status", 400)
            /\ pr.error \in {"HttpResponseError", "StorageError", "HookError"} =>
                 pr.outcome = Out("status", 500)
            /\ pr.error = "Response" => pr.outcome = Out("hookResponse", 503)

C4_Witness ==
    \E p \in ProcIds :
        /\ Finished(p)
        /\ proc[p].phase = "callback"
        /\ proc[p].error = "StorageError"
        /\ proc[p].outcome.status = 500

\* C5: a callback whose validation failed (missing cookie, bad HMAC, state or
\* shop mismatch, failed code exchange) leaves session storage as it was, and
\* storeSession runs only in a request whose api.auth.callback returned a
\* session.
C5_FailedCallbackStoresNothing ==
    [][\A p \in ProcIds :
         /\ (proc'[p].phase = "callback" /\ proc'[p].cbResult \notin {"none", "ok"})
              => (storage' = storage /\ proc'[p].stores = 0)
         /\ (proc[p].phase = "callback" /\ proc'[p].stores > proc[p].stores)
              => (proc[p].cbResult = "ok" /\ proc[p].session # NoSession)]_vars

C5_Witness ==
    \E p \in ProcIds :
        /\ Finished(p)
        /\ proc[p].phase = "callback"
        /\ proc[p].cbResult = "InvalidOAuthError"
        /\ storage[getOfflineId(proc[p].req.shop)] = NoSession

\* C6: in a successful callback the session is stored before the afterAuth
\* hook runs and before the final redirect into the app is raised: a hook
\* call or a final redirect implies that this request's store completed and
\* storage holds the callback's session.
C6_StoredBeforeHookAndRedirect ==
    \A p \in ProcIds :
        LET pr == proc[p] IN
        pr.phase = "callback" =>
            /\ pr.hooks > 0 =>
                 /\ pr.stores = 1
                 /\ storage[pr.hookSession.id] = pr.hookSession
            /\ (Finished(p) /\ pr.cbResult = "ok" /\ pr.outcome.kind \in FinalRedirects) =>
                 /\ pr.stores = 1
                 /\ storage[pr.session.id] = pr.session

C6_Witness ==
    \E p \in ProcIds :
        /\ Finished(p)
        /\ proc[p].phase = "callback"
        /\ proc[p].outcome.kind = "appRoot"
        /\ proc[p].hooks = 1

\* C7: a callback that yielded and stored an offline session, with
\* useOnlineTokens set, ends in the begin of an online-mode flow for that
\* shop, and that begin is raised only after the offline session is in
\* storage; a callback with an online session, or with useOnlineTokens
\* unset, begins no second flow.
C7_OfflineCallbackBeginsOnlineFlow ==
    \A p \in ProcIds :
        LET pr == proc[p] IN
        (Finished(p) /\ pr.phase = "callback" /\ pr.cbResult = "ok") =>
            /\ (config.useOnlineTokens /\ ~pr.session.isOnline /\ pr.stores = 1) =>
                 pr.outcome = BeginRedirect(pr.req.shop, TRUE)
            /\ pr.outcome.kind = "begin" =>
                 /\ pr.outcome = BeginRedirect(pr.req.shop, TRUE)
                 /\ pr.stores = 1
                 /\ storage[getOfflineId(pr.req.shop)] = pr.session
                 /\ ~pr.session.isOnline
                 /\ config.useOnlineTokens
            /\ (pr.session.isOnline \/ ~config.useOnlineTokens) => pr.begins = 0

C7_Witness ==
    \E p \in ProcIds :
        /\ Finished(p)
        /\ proc[p].phase = "callback"
        /\ proc[p].outcome = BeginRedirect("s1", TRUE)
        /\ proc[p].stores = 1

\* C8 as stated: with a hook configured, afterAuth runs exactly once in every
\* callback that validated and stored its session, offline phase included
\* when useOnlineTokens is set, and never otherwise.
C8_HookOncePerStoredCallback ==
    \A p \in ProcIds :
        LET pr == proc[p] IN
        (Finished(p) /\ pr.phase = "callback" /\ config.afterAuth) =>
            /\ (pr.cbResult = "ok" /\ pr.stores = 1) => pr.hooks = 1
            /\ pr.hooks > 0 => (pr.cbResult = "ok" /\ pr.stores = 1 /\ pr.hooks = 1)

\* C8 amended: afterAuth runs at most once per callback, with the callback's
\* session, and only after the session was stored; with a hook configured it
\* runs exactly once in a stored callback that begins no online flow (the
\* session is online, or useOnlineTokens is unset); it never runs in a failed
\* callback, nor in the offline-phase callback when useOnlineTokens is set.
C8_HookOncePerCallbackThatEndsTheFlow ==
    \A p \in ProcIds :
        LET pr == proc[p] IN
        pr.phase = "callback" =>
            /\ pr.hooks <= 1
            /\ pr.hooks = 1 =>
                 /\ pr.cbResult = "ok"
                 /\ pr.stores = 1
                 /\ pr.hookSession = pr.session
                 /\ config.afterAuth
            /\ ( /\ Finished(p) /\ config.afterAuth
                 /\ pr.cbResult = "ok" /\ pr.stores = 1
                 /\ (pr.session.isOnline \/ ~config.useOnlineTokens) ) => pr.hooks = 1
            /\ (pr.cbResult = "ok" /\ config.useOnlineTokens /\ ~pr.session.isOnline) =>
                 pr.hooks = 0

C8_Witness ==
    \E p \in ProcIds :
        /\ Finished(p)
        /\ proc[p].phase = "callback"
        /\ proc[p].hooks = 1
        /\ proc[p].session.isOnline
        /\ config.useOnlineTokens
        /\ proc[p].outcome.kind \in FinalRedirects

\* C9: when the flow of a shop ends with the final redirect into the app,
\* the flow has stored, with useOnlineTokens set, an offline session and then
\* an online session for the shop, and with useOnlineTokens unset an offline
\* session only; the sessions are in storage.
C9_CompletedFlowStoredItsSessions ==
    \A s \in Shops :
        flow[s].state = "Completed" =>
            /\ flow[s].stored = IF config.useOnlineTokens
                                THEN <<"offline", "online">>
                                ELSE <<"offline">>
            /\ storage[getOfflineId(s)] # NoSession
            /\ config.useOnlineTokens =>
                 \E u \in Subs : storage[getJwtSessionId(s, u)] # NoSession

C9_Witness ==
    /\ config.useOnlineTokens
    /\ flow["s1"].state = "Completed"
    /\ flow["s1"].stored = <<"offline", "online">>
    /\ \E p \in ProcIds :
         /\ Finished(p)
         /\ proc[p].phase = "callback"
         /\ proc[p].outcome.kind \in FinalRedirects

\* the moves of a shop's flow: a begin opens a round trip from any state, the
\* begin response puts the flow in wait of its callback, and only a callback
\* that was waited for ends it
FlowMoves(from, to) ==
    \/ to = "Began"
    \/ from = "Began" /\ to = "AwaitingCallback"
    \/ from = "AwaitingCallback" /\ to \in {"Completed", "Failed"}

FlowOrder ==
    \A s \in Shops :
        flow'[s].state # flow[s].state => FlowMoves(flow[s].state, flow'[s].state)

RoundTrips == IF config.useOnlineTokens THEN 2 ELSE 1

\* the flow failed in a callback that api.auth.callback itself refused
CallbackWasInvalid(s) ==
    /\ flow[s].state = "Failed"
    /\ \E p \in ProcIds :
          /\ Finished(p) /\ proc[p].phase = "callback" /\ proc[p].req.shop = s
          /\ proc[p].cbResult \notin {"none", "ok", "CookieNotFound"}

\* C10 as stated: the flow of a shop moves only along NotStarted -> Began ->
\* AwaitingCallback -> Completed or Failed (each begin opening a round trip),
\* and, the platform delivering a valid callback with its state cookie for
\* each begun phase, a begun flow eventually reaches Completed after at most
\* two round trips; only an invalid callback excuses it.
C10_BegunFlowCompletes ==
    /\ [][FlowOrder]_vars
    /\ [](\A s \in Shops : flow[s].trips <= 2)
    /\ \A s \in Shops :
          (flow[s].state = "Began") ~> (flow[s].state = "Completed" \/ CallbackWasInvalid(s))

\* C10, amended: the flow of a shop moves only along NotStarted -> Began ->
\* AwaitingCallback -> Completed or Failed (each begin opening a round trip);
\* under fairness a begun flow eventually ends, Completed or Failed, and never
\* cycles between begin and callback forever; it stores at most two sessions,
\* and is Completed after exactly one round trip (two when useOnlineTokens);
\* a callback that validated, stored its session and ran its hook without an
\* error leaves the flow Completed or in its online phase, so that Failed
\* comes only of an invalid callback or a failed store or hook.
C10_BegunFlowEnds ==
    /\ [][FlowOrder]_vars
    /\ [](\A s \in Shops :
            /\ flow[s].trips <= 2
            /\ flow[s].state = "Completed" => flow[s].trips = RoundTrips)
    /\ [](\A p \in ProcIds :
            (/\ Finished(p) /\ proc[p].phase = "callback"
             /\ proc[p].cbResult = "ok" /\ proc[p].error = "none")
            => flow[proc[p].req.shop].state \in {"Completed", "Began"})
    /\ \A s \in Shops :
          (flow[s].state = "Began") ~> (flow[s].state \in {"Completed", "Failed"})

\* the second round trip ended the flow: the online-phase callback, delivered
\* with the cookie of the online begin, issued the final redirect
C10_Witness ==
    /\ flow["s1"].state = "Completed" /\ flow["s1"].trips = 2
    /\ cookie["s1"] = "online"
    /\ \E p \in ProcIds :
          /\ Finished(p) /\ proc[p].req.stateCookie = "online"
          /\ proc[p].session.isOnline /\ proc[p].outcome.kind \in FinalRedirects

----------------------------------------------------------------------------
(* The begin path and the shop param                                       *)

\* an OAuth begin or callback request whose shop param is missing or invalid
\* ends with 400, and neither the OAuth collaborator nor storage was called
BadShopIs400(p) ==
    LET pr == proc[p] IN
    (/\ Finished(p) /\ pr.req.kind = "admin"
     /\ pr.phase \in {"begin", "callback"}
     /\ sanitizeShop(pr.req.shop) = NoShop)
    => /\ pr.outcome.status = 400
       /\ pr.begins = 0 /\ pr.cbResult = "none"
       /\ pr.loads = 0 /\ pr.stores = 0

BeginHandled(p) ==
    /\ Finished(p) /\ proc[p].req.kind = "admin"
    /\ proc[p].phase = "begin"
    /\ sanitizeShop(proc[p].req.shop) # NoShop

\* C11 as stated: a begin request with a valid shop that says Sec-Fetch-Dest:
\* iframe gets the break-out-of-iframe response and no authorize redirect, for
\* every app configuration; otherwise the offline-mode begin redirect; a begin
\* or callback request with a missing or invalid shop ends with 400 without
\* the OAuth collaborator or session storage.
C11_IframeBeginExitsForEveryConfig ==
    \A p \in ProcIds :
        /\ BadShopIs400(p)
        /\ BeginHandled(p) =>
              IF proc[p].req.iframe
              THEN proc[p].outcome = redirectWithExitIframe(proc[p].req.shop) /\ proc[p].begins = 0
              ELSE proc[p].outcome = BeginRedirect(proc[p].req.shop, FALSE)

\* C11, amended: the break-out-of-iframe response is the outcome when the app
\* is configured as embedded and the request says Sec-Fetch-Dest: iframe; in
\* every other case, a non-embedded app in an iframe included, the outcome is
\* the offline-mode begin redirect; the 400 for a bad shop as stated.
C11_IframeBeginExitsWhenEmbeddedApp ==
    \A p \in ProcIds :
        /\ BadShopIs400(p)
        /\ BeginHandled(p) =>
              IF config.isEmbeddedApp /\ proc[p].req.iframe
              THEN proc[p].outcome = redirectWithExitIframe(proc[p].req.shop) /\ proc[p].begins = 0
              ELSE /\ proc[p].outcome = BeginRedirect(proc[p].req.shop, FALSE)
                   /\ proc[p].begins = 1

C11_Witness ==
    \E p \in ProcIds :
        /\ BeginHandled(p) /\ config.isEmbeddedApp /\ proc[p].req.iframe
        /\ proc[p].outcome.kind = "exitIframeRedirect" /\ proc[p].begins = 0

----------------------------------------------------------------------------
(* Before the try block: preflight, bot traffic, CORS                      *)

\* nothing of authentication ran: no path was dispatched, no token validated,
\* no storage, OAuth or probe call made
NoAuthWork(p) ==
    LET pr == proc[p] IN
    /\ pr.phase = "none"
    /\ pr.loads = 0 /\ pr.stores = 0 /\ pr.validations = 0
    /\ pr.begins = 0 /\ pr.cbResult = "none" /\ pr.probes = 0
    /\ pr.exchanges = 0 /\ pr.hooks = 0

\* C12: every OPTIONS request to authenticateAdmin ends with the terminal 204
\* carrying the max-age header, decided before the bot detector and before
\* any path, token or storage work: an OPTIONS request the bot detector would
\* reject still receives 204.
C12_OptionsAnsweredFirst ==
    \A p \in ProcIds :
        (Finished(p) /\ proc[p].req.kind = "admin" /\ proc[p].req.method = "OPTIONS")
        => /\ proc[p].outcome = Out("options", 204)
           /\ proc[p].maxAge
           /\ NoAuthWork(p)

\* C13: a request the bot detector rejects ends with the detector's terminal
\* response before any authentication work: no storage load or store, no
\* token validation, no OAuth begin or callback, no probe. (Where the entry
\* point answers OPTIONS first, the detector is not consulted for OPTIONS.)
C13_BotRejectedBeforeAuthWork ==
    \A p \in ProcIds :
        (Finished(p) /\ proc[p].req.kind = "admin" /\ proc[p].req.bot)
        => /\ NoAuthWork(p)
           /\ proc[p].outcome =
                 IF config.strategy = "AuthCodeFlowStrategy" /\ proc[p].req.method = "OPTIONS"
                 THEN Out("options", 204)
                 ELSE Out("botRejected", 410)

\* a bot asks for the callback path with a bearer token, and is turned away
C13_Witness ==
    \E p \in ProcIds :
        /\ Finished(p) /\ proc[p].req.bot /\ proc[p].req.method = "GET"
        /\ proc[p].req.path = "callback" /\ proc[p].req.bearer.present
        /\ proc[p].outcome.kind = "botRejected" /\ NoAuthWork(p)

\* C14: every terminal Response authenticateAdmin raises for a cross-origin
\* request (Origin differs from the app URL) carries the CORS headers: the
\* OPTIONS 204, the bot rejection, OAuth redirects and 4xx/5xx included.
C14_TerminalResponseHasCors ==
    \A p \in ProcIds :
        (/\ Finished(p) /\ proc[p].req.kind = "admin"
         /\ proc[p].outcome.kind # "context"
         /\ proc[p].req.origin # AppUrl)
        => proc[p].cors

----------------------------------------------------------------------------
(* Document loads                                                          *)

DocumentLoad(p) ==
    /\ Finished(p) /\ proc[p].req.kind = "admin" /\ proc[p].phase = "document"

BadParams(req) == sanitizeShop(req.shop) = NoShop \/ ~req.hostOk

\* C15 as stated: a document load whose shop or host param is missing or
\* invalid is redirected to the login path before any storage access, for
\* embedded and non-embedded configurations and in both strategies.
C15_BadParamsRedirectToLogin ==
    \A p \in ProcIds :
        (DocumentLoad(p) /\ BadParams(proc[p].req))
        => /\ proc[p].outcome = Out("login", 302)
           /\ proc[p].loads = 0 /\ proc[p].stores = 0

\* the params each strategy validates under each configuration
LoginRequired(cfg, req) ==
    IF cfg.strategy = "AuthStrategy"
    THEN sanitizeShop(req.shop) = NoShop \/ (cfg.isEmbeddedApp /\ ~req.hostOk)
    ELSE cfg.isEmbeddedApp /\ BadParams(req)

\* C15, amended: the login redirect, decided before any storage access, is
\* the outcome of a document load exactly when: in AuthStrategy, the shop is
\* missing or invalid, or the app is embedded and the host is; in
\* AuthCodeFlowStrategy, the app is embedded and the shop or the host is
\* missing or invalid. A non-embedded app does not validate the host, and in
\* AuthCodeFlowStrategy it validates neither param.
C15_BadParamsRedirectToLoginWhereValidated ==
    \A p \in ProcIds :
        DocumentLoad(p) =>
            /\ LoginRequired(config, proc[p].req)
                  => /\ proc[p].outcome = Out("login", 302)
                     /\ proc[p].loads = 0 /\ proc[p].stores = 0
                     /\ proc[p].validations = 0 /\ proc[p].probes = 0
            /\ proc[p].outcome.kind = "login" => LoginRequired(config, proc[p].req)

\* an embedded app is loaded with a valid shop and an invalid host
C15_Witness ==
    \E p \in ProcIds :
        /\ DocumentLoad(p) /\ config.isEmbeddedApp
        /\ proc[p].req.shop \in Shops /\ ~proc[p].req.hostOk
        /\ proc[p].outcome.kind = "login" /\ proc[p].loads = 0

\* C16: a document load with valid params of a shop that has no offline
\* session in storage never reaches the liveness probe, the embed check or
\* session loading: the outcome is the break-out-of-iframe response when the
\* request has embedded=1, the offline-mode begin redirect otherwise.
C16_NotInstalledBeginsOAuth ==
    \A p \in ProcIds :
        (/\ DocumentLoad(p) /\ ~BadParams(proc[p].req)
         /\ storage[getOfflineId(proc[p].req.shop)] = NoSession)
        => /\ proc[p].outcome =
                 IF proc[p].req.embedded
                 THEN redirectWithExitIframe(proc[p].req.shop)
                 ELSE BeginRedirect(proc[p].req.shop, FALSE)
           /\ proc[p].begins = (IF proc[p].req.embedded THEN 0 ELSE 1)
           /\ proc[p].probes = 0 /\ proc[p].validations = 0
           /\ proc[p].sid = NoId /\ proc[p].loads = 1

C16_Witness ==
    \E p \in ProcIds :
        /\ DocumentLoad(p) /\ ~BadParams(proc[p].req) /\ proc[p].req.embedded
        /\ storage[getOfflineId(proc[p].req.shop)] = NoSession
        /\ proc[p].outcome.kind = "exitIframeRedirect" /\ proc[p].loads = 1

ProbeFailures == {"http401", "httpOther", "graphql", "other"}

ProbeFailed(p) ==
    /\ DocumentLoad(p) /\ proc[p].probes = 1 /\ proc[p].error \in ProbeFailures

\* C17 as stated: when the liveness probe fails, a 401 makes the outcome a
\* fresh offline-mode begin, and every other failure (an HTTP error with a
\* non-401 status, a GraphQL query error, any other exception) makes it a
\* terminal response with status 500.
C17_ProbeFailureIs500UnlessUnauthorized ==
    \A p \in ProcIds :
        ProbeFailed(p) =>
            IF proc[p].error = "http401"
            THEN proc[p].outcome = BeginRedirect(proc[p].req.shop, FALSE)
            ELSE proc[p].outcome.status = 500

\* C17, amended: a 401 makes the outcome a fresh offline-mode begin; an HTTP
\* error with another status makes it a terminal response with that status;
\* a GraphQL query error makes it a 500; any other exception is swallowed and
\* the request goes on to the embed check (here: the redirect to the embedded
\* app URL, as the probe runs only for requests without embedded=1).
C17_ProbeFailureMapping ==
    \A p \in ProcIds :
        ProbeFailed(p) =>
            proc[p].outcome =
                IF proc[p].error = "http401" THEN BeginRedirect(proc[p].req.shop, FALSE)
                ELSE IF proc[p].error = "httpOther" THEN Out("status", UpstreamStatus)
                ELSE IF proc[p].error = "graphql" THEN Out("status", 500)
                ELSE redirectToShopifyOrAppRoot(config, proc[p].req.shop)

\* the platform answers the probe with a 503
C17_Witness ==
    \E p \in ProcIds :
        /\ ProbeFailed(p) /\ proc[p].error = "httpOther"
        /\ proc[p].outcome.status = UpstreamStatus

\* C18: the liveness probe is issued only for document loads that lack
\* embedded=1 and for which an offline session was found: never for a request
\* with a bearer token, with embedded=1, or to the auth, bounce or exit-iframe
\* paths, and at most once per request.
C18_ProbeOnlyForUnembeddedDocumentLoads ==
    \A p \in ProcIds :
        LET pr == proc[p] IN
        /\ pr.probes <= 1
        /\ (pr.pc = "probe" \/ pr.probes > 0)
             => /\ pr.req.kind = "admin" /\ pr.phase = "document"
                /\ pr.req.path = "app"
                /\ ~getSessionTokenHeader(pr.req).present
                /\ ~pr.req.embedded
                /\ pr.loads = 1
                /\ storage[offlineIdOf(config, pr.req)] # NoSession

C18_Witness ==
    \E p \in ProcIds :
        /\ DocumentLoad(p) /\ proc[p].probes = 1 /\ proc[p].error = "none"
        /\ ~proc[p].req.embedded /\ proc[p].outcome.kind = "embeddedAppUrl"

\* ensureInstalledOnShop returned: the params passed, the shop has an offline
\* session and the probe, if it ran, raised nothing
InstalledDocumentLoad(p) ==
    /\ DocumentLoad(p) /\ config.isEmbeddedApp
    /\ ~BadParams(proc[p].req)
    /\ storage[getOfflineId(proc[p].req.shop)] # NoSession
    /\ proc[p].error \notin {"http401", "httpOther", "graphql"}

\* the request is sent to the bounce path, its query kept, shopify-reload = url
BouncedWith(p, url) ==
    /\ proc[p].outcome = RaisedResponse("bounceRedirect", 302, proc[p].req.shop)
    /\ proc[p].location.path = "patchSessionToken"
    /\ proc[p].location.params = Query(proc[p].req)
    /\ proc[p].location.reload = url

EmbedChecks(p, reloadUrl) ==
    /\ InstalledDocumentLoad(p) =>
          IF ~proc[p].req.embedded
          THEN /\ proc[p].outcome = RaisedResponse("embeddedAppUrl", 302, proc[p].req.shop)
               /\ proc[p].sid = NoId /\ proc[p].validations = 0
          ELSE IF ~proc[p].req.idToken.present
          THEN /\ BouncedWith(p, reloadUrl)
               /\ proc[p].sid = NoId /\ proc[p].validations = 0
          ELSE proc[p].validations = 1
    /\ (DocumentLoad(p) /\ config.isEmbeddedApp /\ proc[p].validations > 0)
          => proc[p].req.embedded /\ proc[p].req.idToken.present

\* C19 as stated: embedded app, document load of an installed shop: without
\* embedded=1 the outcome is the redirect to the embedded app URL; with it but
\* without id_token, the redirect to the bounce path whose query keeps the
\* original params and adds shopify-reload set to the original URL; the
\* session is loaded only when both checks pass.
C19_BounceReloadsOriginalUrl ==
    \A p \in ProcIds : EmbedChecks(p, Url(proc[p].req))

\* C19, amended: as stated, but shopify-reload is the original URL with its
\* scheme replaced by the configured host scheme (the same URL when the
\* request already used that scheme).
C19_BounceReloadsUrlUnderHostScheme ==
    \A p \in ProcIds : EmbedChecks(p, [Url(proc[p].req) EXCEPT !.scheme = HostScheme])

\* a document load over http is bounced, to come back over the host scheme
C19_Witness ==
    \E p \in ProcIds :
        /\ InstalledDocumentLoad(p) /\ proc[p].req.embedded
        /\ ~proc[p].req.idToken.present /\ proc[p].req.scheme # HostScheme
        /\ proc[p].outcome.kind = "bounceRedirect"
        /\ proc[p].location.reload.scheme = HostScheme

----------------------------------------------------------------------------
(* Webhooks                                                                *)

\* C20: webhook authentication rejects every request whose method is not
\* POST with a terminal 405 before the body is read, before the signature is
\* checked and before any session-storage or token-exchange call.
C20_NonPostWebhookIs405 ==
    \A p \in ProcIds :
        (Finished(p) /\ proc[p].req.kind = "webhook" /\ proc[p].req.method # "POST")
        => /\ proc[p].outcome = Out("status", 405)
           /\ proc[p].reads = 0 /\ proc[p].validations = 0
           /\ proc[p].loads = 0 /\ proc[p].exchanges = 0 /\ proc[p].stores = 0

\* a GET with a bad signature and a bearer token gets the 405, not the 401
C20_Witness ==
    \E p \in ProcIds :
        /\ Finished(p) /\ proc[p].req.kind = "webhook" /\ proc[p].req.method = "GET"
        /\ proc[p].req.check = "InvalidHmac" /\ proc[p].req.bearer.present
        /\ proc[p].outcome.status = 405 /\ proc[p].reads = 0

----------------------------------------------------------------------------
(* The test helper setUpValidRequest, RequestType.Public                   *)
(* A query string is the sequence of its <<key, value>> entries; a string  *)
(* built by concatenation is the sequence of its pieces                    *)

ParamKeys == {"a", "shop", "signature"}
ParamValues == {"x", "y"}

\* the keys in the order of String.localeCompare
KeyOrder == <<"a", "shop", "signature", "timestamp">>

localeRank(key) == CHOOSE i \in 1..Len(KeyOrder) : KeyOrder[i] = key

Entries == {<<k, v>> : k \in ParamKeys, v \in ParamValues}

\* the query strings of the input URLs
InputQueries == UNION {[1..n -> Entries] : n \in 0..MaxParams}

\* getShop(store): the shop domain of a test store
getShop(store) == IF store = "s1" THEN "s1.myshopify.com" ELSE "s2.myshopify.com"

\* String(Math.trunc(Date.now() / 1000) - 1)
Timestamp == "1700000000"

ApiSecret == "secret"

Positions(q, key) == {i \in 1..Len(q) : q[i][1] = key}

First(q, key) == CHOOSE i \in Positions(q, key) : \A j \in Positions(q, key) : i <= j

Last(q, key) == CHOOSE i \in Positions(q, key) : \A j \in Positions(q, key) : j <= i

RECURSIVE Pick(_, _, _)
\* the entries of q at the positions of keep, in order, from position i on
Pick(q, keep, i) ==
    IF i > Len(q) THEN <<>>
    ELSE IF i \in keep THEN <<q[i]>> \o Pick(q, keep, i + 1)
    ELSE Pick(q, keep, i + 1)

\* URLSearchParams.set: the first entry of the key takes the value and the
\* key's other entries are removed; a new key is appended
searchParamsSet(q, key, value) ==
    IF Positions(q, key) = {}
    THEN Append(q, <<key, value>>)
    ELSE LET first == First(q, key)
             put == [q EXCEPT ![first] = <<key, value>>]
         IN Pick(put, {i \in 1..Len(q) : q[i][1] # key \/ i = first}, 1)

\* Object.fromEntries(url.searchParams.entries()): one property per key, in
\* the order the keys first appear, holding the key's last value
fromEntries(q) ==
    LET firsts == Pick(q, {i \in 1..Len(q) : i = First(q, q[i][1])}, 1) IN
    [i \in 1..Len(firsts) |-> <<firsts[i][1], q[Last(q, firsts[i][1])][2]>>]

\* .sort(([val1], [val2]) => val1.localeCompare(val2))
sortByKey(entries) ==
    SortSeq(entries, LAMBDA e1, e2 : localeRank(e1[1]) < localeRank(e2[1]))

RECURSIVE reduceToString(_)
\* .reduce((acc, [key, value]) => `${acc}${key}=${value}`, '')
reduceToString(entries) ==
    IF entries = <<>> THEN <<>>
    ELSE <<entries[1][1], "=", entries[1][2]>> \o reduceToString(Tail(entries))

\* createSHA256HMAC(apiSecret, string, HashFormat.Hex)
createSHA256HMAC(secret, string) == <<"hmac", secret, string>>

\* publicRequest, lines 142-164: the string that is signed
signedString(query, store) ==
    LET url == searchParamsSet(searchParamsSet(query, "shop", getShop(store)),
                               "timestamp", Timestamp)
    IN reduceToString(sortByKey(fromEntries(url)))

\* publicRequest, lines 142-164: the query string of the returned request
publicRequest(query, store, secret) ==
    LET url == searchParamsSet(searchParamsSet(query, "shop", getShop(store)),
                               "timestamp", Timestamp)
    IN searchParamsSet(url, "signature", createSHA256HMAC(secret, signedString(query, store)))

\* a test calls setUpValidRequest({type: RequestType.Public, store, apiSecret}, request)
CallPublic(p) ==
    /\ proc[p].pc = "idle"
    /\ \E query \in InputQueries, store \in Shops :
         proc' = [proc EXCEPT ![p] =
                    [IdleProc EXCEPT !.pc = "sign",
                                     !.test = [NoTest EXCEPT !.store = store, !.query = query]]]
    /\ UNCHANGED <<config, storage, cookie, flow>>

\* authenticatedRequest = await publicRequest(request, options.store, options.apiSecret)
SignPublic(p) ==
    LET test == proc[p].test IN
    /\ proc[p].pc = "sign"
    /\ proc' = [proc EXCEPT ![p] =
                  [@ EXCEPT !.pc = "done",
                            !.test = [test EXCEPT
                                        !.string = signedString(test.query, test.store),
                                        !.url = publicRequest(test.query, test.store, ApiSecret)]]]
    /\ UNCHANGED <<config, storage, cookie, flow>>

NextSign == \E p \in MainProcs : CallPublic(p) \/ SignPublic(p)

SpecSign == Init /\ [][NextSign]_vars

----------------------------------------------------------------------------
(* Concurrent invocations: every request is its own run of the handler,    *)
(* interleaved with the others at its awaits; each of the two runs is      *)
(* followed from its arrival to its response                               *)

\* what arrives for one shop: the begin and callback paths and a webhook
\* delivery that carries a session token
ShopRequests(shop) ==
    {Req("GET", FALSE, "app", path, shop, TRUE, FALSE, FALSE, NoToken, NoToken, NoId) :
        path \in {"auth", "callback"}}
    \cup
    {[NoRequest EXCEPT !.kind = "webhook", !.method = "POST", !.origin = "none",
                       !.path = "webhooks", !.shop = shop, !.check = "valid",
                       !.topic = "APP_UNINSTALLED", !.bearer = Token(shop, "u1")]}

ConcurrentRequests == UNION {ShopRequests(shop) : shop \in Shops}

ReceiveConcurrent(p) == ReceiveFrom(p, ConcurrentRequests)

NextConcurrent ==
    \E p \in ProcIds :
        \/ ReceiveConcurrent(p)
        \/ Dispatch(p)
        \/ WebhookStart(p)
        \/ WebhookLoad(p)
        \/ WebhookExchange(p)
        \/ WebhookStore(p)
        \/ CallbackCall(p)
        \/ CallbackStore(p)
        \/ CallbackOnline(p)
        \/ CallbackHook(p)
        \/ CallbackRedirect(p)

\* the app starts with nothing stored for the first shop, or with its
\* offline session stored
ConcurrentStorages ==
    {st \in InitialStorages :
        /\ st[getJwtSessionId("s1", "u1")] = NoSession
        /\ st[getOfflineId("s1")] \in {NoSession, NewSession("s1", FALSE, NoSub, 1)}}

\* the flow of a shop whose browser holds the state cookie of a begun phase
FlowAwaiting(phase) ==
    IF phase = "none" THEN NoFlow
    ELSE IF phase = "offline"
    THEN [state |-> "AwaitingCallback", stored |-> <<>>, trips |-> 0]
    ELSE [state |-> "AwaitingCallback", stored |-> <<"offline">>, trips |-> 1]

\* two requests arrive while flows may be under way: a shop's browser holds
\* no state cookie, the one of the offline phase, or (after the offline
\* session was stored, with online tokens in use) the one of the online phase
InitConcurrent ==
    /\ config \in Configs
    /\ storage \in ConcurrentStorages
    /\ cookie \in [Shops -> {"none", "offline", "online"}]
    /\ \A s \in Shops :
          cookie[s] = "online" =>
              config.useOnlineTokens /\ storage[getOfflineId(s)] # NoSession
    /\ flow = [s \in Shops |-> FlowAwaiting(cookie[s])]
    /\ proc = [p \in ProcIds |-> IdleProc]

SpecConcurrent == InitConcurrent /\ [][NextConcurrent]_vars

\* two requests on the callback path of one shop
RaceRequests == {req \in ShopRequests("s1") : req.path = "callback"}

InitRace == InitConcurrent /\ cookie["s2"] = "none"

ReceiveRace(p) == ReceiveFrom(p, RaceRequests)

\* each of the two callbacks exchanges an authorization code of its own
RaceCodes == 1..(MaxCodes + 1)

RaceEnvs ==
    [hmacOk : BOOLEAN, stateOk : BOOLEAN, exchangeOk : BOOLEAN, sub : {"u1"}, code : RaceCodes]

CallbackCallRace(p) == CallbackCallWith(p, RaceEnvs)

NextRace ==
    \E p \in ProcIds :
        \/ ReceiveRace(p)
        \/ Dispatch(p)
        \/ CallbackCallRace(p)
        \/ CallbackStore(p)
        \/ CallbackOnline(p)
        \/ CallbackHook(p)
        \/ CallbackRedirect(p)

\* every await of a started handler settles
HandlerFairness ==
    \A p \in ProcIds :
        /\ WF_vars(Dispatch(p))
        /\ WF_vars(CallbackCallRace(p))
        /\ WF_vars(CallbackStore(p))
        /\ WF_vars(CallbackOnline(p))
        /\ WF_vars(CallbackHook(p))
        /\ WF_vars(CallbackRedirect(p))

SpecRaceFair == InitRace /\ [][NextRace]_vars /\ HandlerFairness

----------------------------------------------------------------------------
(* Webhook validation, session recovery and the returned context           *)

Webhook(p) == Finished(p) /\ proc[p].req.kind = "webhook"

ValidWebhook(p) ==
    Webhook(p) /\ proc[p].req.method = "POST" /\ proc[p].req.check = "valid"

ReturnedContext(p) == Webhook(p) /\ proc[p].outcome = Out("webhookContext", 200)

\* C21: a POST webhook that fails validation is answered 401 when the reason
\* is an invalid HMAC and 400 for every other reason, and in both cases no
\* offline session is loaded, no token exchange is attempted, nothing is
\* stored and no webhook context is returned.
C21_InvalidWebhookIsRejected ==
    \A p \in ProcIds :
        (Webhook(p) /\ proc[p].req.method = "POST" /\ proc[p].req.check # "valid")
        => /\ proc[p].outcome =
                  Out("status", IF proc[p].req.check = "InvalidHmac" THEN 401 ELSE 400)
           /\ proc[p].loads = 0 /\ proc[p].exchanges = 0 /\ proc[p].stores = 0
           /\ proc[p].ctx = NoCheck /\ proc[p].session = NoSession /\ ~proc[p].admin

\* a signed-wrong delivery that carries a valid bearer token is rejected
C21_Witness ==
    \E p \in ProcIds :
         /\ Webhook(p) /\ proc[p].req.method = "POST"
         /\ proc[p].req.check = "InvalidHmac" /\ proc[p].outcome.status = 401
         /\ proc[p].validations = 1
         /\ proc[p].req.bearer.valid

\* C22 as stated: the exchange is attempted exactly when the webhook is valid,
\* no offline session was found and the request carries a session token.
C22_ExchangeIffNoSessionAndToken ==
    \A p \in ProcIds :
        Webhook(p) =>
            /\ (proc[p].exchanges = 1) <=>
                   (ValidWebhook(p) /\ ~proc[p].found /\ proc[p].req.bearer.present)
            /\ proc[p].found => (proc[p].exchanges = 0 /\ proc[p].stores = 0)

\* C22: the exchange is attempted exactly when the webhook is valid, no offline
\* session was found, the topic is not SHOP_REDACT and the request carries a
\* session token; when a stored session is found the exchange is never
\* attempted and storage is not written.
C22_ExchangeIffNoSessionTokenAndNotShopRedact ==
    \A p \in ProcIds :
        Webhook(p) =>
            /\ proc[p].exchanges \in {0, 1}
            /\ (proc[p].exchanges = 1) <=>
                   /\ ValidWebhook(p) /\ ~proc[p].found
                   /\ proc[p].req.topic # "SHOP_REDACT"
                   /\ proc[p].req.bearer.present
            /\ proc[p].found => (proc[p].exchanges = 0 /\ proc[p].stores = 0)

\* a SHOP_REDACT delivery with a token and no stored session: no exchange
C22_Witness ==
    \E p \in ProcIds :
        /\ ValidWebhook(p) /\ ~proc[p].found /\ proc[p].loads = 1
        /\ proc[p].req.bearer.present /\ proc[p].req.topic = "SHOP_REDACT"
        /\ proc[p].exchanges = 0 /\ ReturnedContext(p)

StoreFailed(p) ==
    Webhook(p) /\ proc[p].exchanges = 1 /\ proc[p].error = "StorageError"

C24_StoreFailureLeavesNoSession ==
    \A p \in ProcIds :
        StoreFailed(p) =>
            /\ ReturnedContext(p)
            /\ proc[p].session = NoSession /\ ~proc[p].admin

ExchangeFailed(p) ==
    /\ Webhook(p) /\ proc[p].exchanges = 1
    /\ proc[p].error \in {"InvalidJwtError", "InvalidShopError", "NetworkError"}

\* C25: an exchange that fails with InvalidJwtError or InvalidShopError ends
\* the request with a 400; any other failure of the exchange is swallowed and
\* the context is returned without a session, storage not written.
C25_ExchangeFailureMapping ==
    \A p \in ProcIds :
        ExchangeFailed(p) =>
            /\ proc[p].stores = 0
            /\ proc[p].session = NoSession /\ ~proc[p].admin
            /\ IF proc[p].error \in {"InvalidJwtError", "InvalidShopError"}
               THEN proc[p].outcome = Out("status", 400) /\ proc[p].ctx = NoCheck
               ELSE ReturnedContext(p) /\ proc[p].ctx = WebhookCheck(proc[p].req)

\* an exchange lost to the network: the context comes back without a session
C25_Witness ==
    \E p \in ProcIds :
        /\ ExchangeFailed(p) /\ proc[p].error = "NetworkError"
        /\ ReturnedContext(p) /\ proc[p].session = NoSession
        /\ storage[getOfflineId(proc[p].req.shop)] = NoSession

\* an offline session was loaded from storage or recovered by the exchange
HasSession(p) ==
    \/ proc[p].found
    \/ proc[p].exchanges = 1 /\ proc[p].error \in {"none", "StorageError"}

----------------------------------------------------------------------------
(* The session id of a validated token                                     *)

ValidTokens == {Token(s, u) : s \in Shops, u \in Subs}

\* C29: the session id for a validated session token is a function of the
\* token's dest shop and, only when useOnlineTokens is set, its subject: with
\* useOnlineTokens off, tokens of one shop give the same offline id whatever
\* the subject; with it on, tokens that differ in subject give different ids.
C29_SessionIdFromShopAndSubject ==
    /\ \A p \in ProcIds :
          proc[p].token.valid =>
              proc[p].sid = IF config.useOnlineTokens
                            THEN getJwtSessionId(proc[p].token.shop, proc[p].token.sub)
                            ELSE getOfflineId(proc[p].token.shop)
    /\ \A t1, t2 \in ValidTokens :
          /\ (~config.useOnlineTokens /\ t1.shop = t2.shop)
                => tokenSessionId(config, t1) = tokenSessionId(config, t2)
          /\ (config.useOnlineTokens /\ t1.sub # t2.sub)
                => tokenSessionId(config, t1) # tokenSessionId(config, t2)
          /\ t1.shop # t2.shop
                => tokenSessionId(config, t1) # tokenSessionId(config, t2)

\* a token of the second user resolved to the shop's offline id
C29_Witness ==
    \E p \in ProcIds :
        /\ ~config.useOnlineTokens /\ proc[p].validations = 1
        /\ proc[p].token = Token("s1", "u2")
        /\ proc[p].sid = getOfflineId("s1")

\* C30: a liveness probe that fails with neither an HttpResponseError nor a
\* GraphqlQueryError is swallowed: the request goes on to the embed check and
\* ends as it does when the probe succeeds.
C30_OtherProbeFailureIsSwallowed ==
    \A p \in ProcIds :
        (DocumentLoad(p) /\ proc[p].probes = 1 /\ proc[p].error \in {"none", "other"})
        => /\ proc[p].outcome = redirectToShopifyOrAppRoot(config, proc[p].req.shop)
           /\ proc[p].outcome.status \notin {UpstreamStatus, 500}
           /\ proc[p].begins = 0

\* a probe that failed with some other exception, and the redirect to the
\* embedded app that followed
C30_Witness ==
    \E p \in ProcIds :
        /\ DocumentLoad(p) /\ proc[p].probes = 1 /\ proc[p].error = "other"
        /\ proc[p].outcome = redirectToShopifyOrAppRoot(config, proc[p].req.shop)

----------------------------------------------------------------------------
(* Concurrent requests                                                     *)

\* the callback p handles got its session and nothing after it has failed
Succeeding(p) ==
    proc[p].phase = "callback" /\ proc[p].cbResult = "ok" /\ proc[p].error = "none"

\* two callbacks in flight for the same shop and access mode
SameRace(p, q) ==
    /\ p # q /\ Succeeding(p) /\ Succeeding(q)
    /\ proc[p].session.id = proc[q].session.id

\* the redirect a successful callback ends with
CallbackRedirectOf(p) ==
    IF needsOnlineFlow(config, proc[p].session)
    THEN beginAuth(proc[p].session.shop, TRUE)
    ELSE redirectToShopifyOrAppRoot(config, proc[p].session.shop)

\* a step in which p's store succeeds
Stores(p) == proc'[p].stores = proc[p].stores + 1

\* every successful store replaces what is stored under its session's id, and
\* storage changes in no other way
LastStoreWins ==
    /\ \A p \in ProcIds :
          Stores(p) => storage' = [storage EXCEPT ![proc[p].session.id] = proc[p].session]
    /\ storage' # storage => \E p \in ProcIds : Stores(p)

RaceOutcome ==
    \A p, q \in ProcIds :
        SameRace(p, q) =>
            /\ Finished(p) => (proc[p].outcome = CallbackRedirectOf(p) /\ proc[p].stores = 1)
            /\ (proc[p].stores = 1 /\ proc[q].stores = 0)
                  => storage[proc[p].session.id] = proc[p].session
            /\ (proc[p].stores = 1 /\ proc[q].stores = 1)
                  => storage[proc[p].session.id] \in {proc[p].session, proc[q].session}

\* C27: in every interleaving of two concurrent successful OAuth callbacks for
\* the same shop and access mode, both requests end with their own redirect
\* and storage holds one session under the id: the one the last store wrote.
C27_ConcurrentCallbacksLastStoreWins ==
    /\ []RaceOutcome
    /\ [][LastStoreWins]_vars
    /\ \A p \in ProcIds : (proc[p].phase = "callback") ~> Finished(p)

\* both callbacks have ended with their redirects, they obtained different
\* sessions, and the stored one is that of the second request
C27_Witness ==
    /\ SameRace(1, 2) /\ Finished(1) /\ Finished(2)
    /\ proc[1].session # proc[2].session
    /\ proc[1].outcome = CallbackRedirectOf(1) /\ proc[2].outcome = CallbackRedirectOf(2)
    /\ storage[proc[1].session.id] = proc[2].session

\* the shop a request concerns
ShopOf(pr) == pr.req.shop

\* the stored sessions of a shop
SessionsOf(store, shop) == {i \in SessionIds : store[i].shop = shop}

StoredOf(store, shop) == [i \in SessionsOf(store, shop) |-> store[i]]

\* a step of the request p handles leaves the other request, and the cookie
\* and the stored sessions of every other shop, as they were
OwnShopOnly ==
    \A p \in ProcIds :
        proc'[p] # proc[p] =>
            /\ \A q \in ProcIds \ {p} : proc'[q] = proc[q]
            /\ \A s \in Shops \ {ShopOf(proc'[p])} :
                  /\ cookie'[s] = cookie[s]
                  /\ StoredOf(storage', s) = StoredOf(storage, s)

\* with the other request on a different shop, a request that stored its
\* session still finds it stored when it ends, and a successful callback ends
\* with its redirect
AsWhenAlone ==
    \A p, q \in ProcIds :
        (/\ proc[p].pc # "idle" /\ proc[q].pc # "idle"
         /\ ShopOf(proc[p]) # ShopOf(proc[q]))
        => /\ proc[p].stores = 1 => storage[proc[p].session.id] = proc[p].session
           /\ (Finished(p) /\ Succeeding(p)) => proc[p].outcome = CallbackRedirectOf(p)

\* C28: concurrent invocations for different shops do not interfere: a
\* request writes only the stored sessions and cookie of its own shop and
\* never the other request, so its outcome and its shop's sessions are what
\* they are when it runs alone; the configuration is never written.
C28_DifferentShopsDoNotInterfere ==
    /\ []AsWhenAlone
    /\ [][OwnShopOnly /\ config' = config]_vars

\* a callback for one shop and a webhook recovery for the other, both ended,
\* each with its own session stored
C28_Witness ==
    /\ Finished(1) /\ Finished(2)
    /\ ShopOf(proc[1]) = "s1" /\ ShopOf(proc[2]) = "s2"
    /\ proc[1].stores = 1 /\ proc[2].stores = 1
    /\ storage[proc[1].session.id] = proc[1].session
    /\ storage[proc[2].session.id] = proc[2].session

----------------------------------------------------------------------------
(* SHOP_REDACT, the hook's failures and the restart after a lost cookie    *)

\* C31: a valid SHOP_REDACT webhook for a shop with no stored session never
\* attempts the token exchange and never writes storage, a session token on
\* the request notwithstanding; it returns a context without a session.
C31_ShopRedactNeverExchanges ==
    \A p \in ProcIds :
        (ValidWebhook(p) /\ proc[p].req.topic = "SHOP_REDACT" /\ ~proc[p].found)
        => /\ proc[p].exchanges = 0 /\ proc[p].stores = 0
           /\ storage[getOfflineId(proc[p].req.shop)] = NoSession
           /\ ReturnedContext(p)
           /\ proc[p].session = NoSession /\ ~proc[p].admin

\* a SHOP_REDACT delivery with a valid session token, nothing stored for the
\* shop before or after
C31_Witness ==
    \E p \in ProcIds :
        /\ ValidWebhook(p) /\ proc[p].req.topic = "SHOP_REDACT" /\ ~proc[p].found
        /\ proc[p].req.bearer.valid
        /\ storage[getOfflineId(proc[p].req.shop)] = NoSession
        /\ proc[p].session = NoSession /\ proc[p].outcome.status = 200

HookFailed(p) ==
    /\ Finished(p) /\ proc[p].phase = "callback" /\ proc[p].hooks = 1
    /\ proc[p].error \in {"HookError", "Response"}

\* C32: when the afterAuth hook fails after the callback's session was
\* stored, the session is not rolled back: an error that is not a Response
\* ends the request with status 500, a Response the hook throws is the
\* request's outcome as thrown, and in both cases the session stays stored.
C32_HookFailureKeepsStoredSession ==
    \A p \in ProcIds :
        HookFailed(p) =>
            /\ proc[p].stores = 1
            /\ proc[p].hookSession = proc[p].session
            /\ storage[proc[p].session.id] = proc[p].session
            /\ proc[p].outcome = IF proc[p].error = "HookError"
                                 THEN Out("status", 500)
                                 ELSE Out("hookResponse", 503)

\* the hook threw an error for a shop that had no stored offline session
\* before this callback
C32_Witness ==
    \E p \in ProcIds :
        /\ HookFailed(p) /\ proc[p].error = "HookError"
        /\ proc[p].outcome.status = 500
        /\ ~proc[p].session.isOnline
        /\ storage[proc[p].session.id] = proc[p].session
        /\ flow[proc[p].req.shop].trips = 1

CookieLost(p) ==
    Finished(p) /\ proc[p].phase = "callback" /\ proc[p].cbResult = "CookieNotFound"

\* C33: a callback that fails with CookieNotFound restarts the flow in
\* offline mode, also when the flow was in its online phase, under the iframe
\* rule of a begin request (the exit-iframe response when the app is embedded
\* and the request comes from an iframe); that request stores no session and
\* runs no hook.
C33_LostCookieRestartsOffline ==
    \A p \in ProcIds :
        CookieLost(p) =>
            /\ proc[p].outcome =
                  IF config.isEmbeddedApp /\ proc[p].req.iframe
                  THEN redirectWithExitIframe(proc[p].req.shop)
                  ELSE beginAuth(proc[p].req.shop, FALSE)
            /\ ~proc[p].outcome.isOnline
            /\ proc[p].stores = 0 /\ proc[p].hooks = 0
            /\ proc[p].session = NoSession

\* the browser held the cookie of the online phase, the callback came without
\* it, and the answer is an offline begin
C33_Witness ==
    \E p \in ProcIds :
        /\ CookieLost(p)
        /\ config.useOnlineTokens
        /\ cookie[proc[p].req.shop] = "online"
        /\ storage[getOfflineId(proc[p].req.shop)] # NoSession
        /\ proc[p].outcome = beginAuth(proc[p].req.shop, FALSE)

----------------------------------------------------------------------------
(* What writes session storage                                             *)

\* the request p handles obtained a session from the platform: its OAuth
\* callback succeeded, or its webhook token exchange did
FreshlyIssued(p) ==
    \/ proc[p].phase = "callback" /\ proc[p].cbResult = "ok"
    \/ /\ proc[p].phase = "webhook" /\ proc[p].exchanges = 1
       /\ proc[p].error \notin {"InvalidJwtError", "InvalidShopError", "NetworkError"}

StoresOnlyWhenIssued ==
    \A p \in ProcIds :
        /\ proc[p].stores \in {0, 1}
        /\ proc[p].stores = 1 => (FreshlyIssued(p) /\ proc[p].session # NoSession)
        /\ proc[p].phase \in {"bearer", "document", "bounce", "exitIframe", "begin", "none"}
              => proc[p].stores = 0

StorageWrite ==
    storage' # storage =>
        /\ \E p \in ProcIds :
              /\ proc[p].stores = 0 /\ proc'[p].stores = 1
              /\ FreshlyIssued(p)
              /\ storage' = [storage EXCEPT ![proc[p].session.id] = proc[p].session]
        /\ \A i \in SessionIds : storage'[i] = NoSession => storage[i] = NoSession

\* C34: session storage is written only with sessions freshly issued by the
\* platform: by a successful OAuth callback or a successful webhook token
\* exchange, at most once per request; the bearer, document, bounce,
\* exit-iframe and begin paths and every request that was refused leave it
\* unchanged, and nothing deletes a session.
C34_StorageWrittenOnlyWithIssuedSessions ==
    []StoresOnlyWhenIssued /\ [][StorageWrite]_vars

\* a webhook recovery added the exchanged session under the shop's offline id
C34_Witness ==
    \E p \in ProcIds :
        /\ Finished(p) /\ proc[p].phase = "webhook" /\ proc[p].stores = 1
        /\ proc[p].exchanges = 1 /\ ~proc[p].found
        /\ storage[proc[p].session.id] = proc[p].session

----------------------------------------------------------------------------
(* Document loads outside the admin, and the returned admin context        *)

Unembedded(p) ==
    DocumentLoad(p) /\ config.isEmbeddedApp /\ ~proc[p].req.embedded

\* C35: for an embedded app a document load without embedded=1 never ends
\* with a session context: once the installed check has run, and whatever
\* the probe answers, the request ends with an OAuth begin, an error status
\* or the redirect to the platform's embedded app URL.
C35_UnembeddedLoadNeverReturnsContext ==
    \A p \in ProcIds :
        Unembedded(p) =>
            /\ proc[p].outcome.kind # "context"
            /\ proc[p].sid = NoId
            /\ proc[p].loads >= 1 =>
                  /\ proc[p].loads = 1
                  /\ proc[p].outcome \in
                        {beginAuth(proc[p].req.shop, FALSE),
                         Out("status", UpstreamStatus), Out("status", 500),
                         redirectToShopifyOrAppRoot(config, proc[p].req.shop)}

\* an installed shop, a live offline session and a valid id_token in the URL:
\* the request is still sent to the embedded app URL
C35_Witness ==
    \E p \in ProcIds :
        /\ Unembedded(p) /\ proc[p].probes = 1 /\ proc[p].error = "none"
        /\ proc[p].req.idToken.valid
        /\ proc[p].outcome = redirectToShopifyOrAppRoot(config, proc[p].req.shop)

Succeeded(p) ==
    Finished(p) /\ proc[p].req.kind = "admin" /\ proc[p].outcome.kind = "context"

\* C36: for an embedded app every successful authenticateAdmin result carries
\* a sessionToken that is a validated token payload, whose dest shop is the
\* shop the returned session's id was derived from; for an app that is not
\* embedded the result carries no sessionToken, also when the request was
\* authenticated by a bearer token.
C36_SessionTokenOnlyForEmbeddedApps ==
    \A p \in ProcIds :
        Succeeded(p) =>
            IF config.isEmbeddedApp
            THEN /\ proc[p].sessionToken.present /\ proc[p].sessionToken.valid
                 /\ proc[p].validations >= 1
                 /\ proc[p].sessionToken \in
                       {getSessionTokenHeader(proc[p].req), proc[p].req.idToken}
                 /\ proc[p].session.shop = proc[p].sessionToken.shop
                 /\ proc[p].session.id =
                       IF config.useOnlineTokens
                       THEN getJwtSessionId(proc[p].sessionToken.shop, proc[p].sessionToken.sub)
                       ELSE getOfflineId(proc[p].sessionToken.shop)
            ELSE proc[p].sessionToken = NoToken

\* a bearer request of an app that is not embedded: the token was validated,
\* the session returned, and the context has no sessionToken
C36_Witness ==
    \E p \in ProcIds :
        /\ Succeeded(p) /\ ~config.isEmbeddedApp
        /\ proc[p].phase = "bearer" /\ proc[p].token.valid /\ proc[p].validations = 1
        /\ proc[p].sessionToken = NoToken

----------------------------------------------------------------------------
(* CORS decoration by origin                                               *)

TerminalResponse(p) ==
    Finished(p) /\ proc[p].req.kind = "admin" /\ proc[p].outcome.kind # "context"

\* C37: CORS decoration goes by the origin alone: a terminal response to a
\* request whose Origin is the app URL gets none of the three headers, one to
\* a request with no Origin header gets them, and decorating changes nothing
\* else of the response.
C37_CorsByOriginAlone ==
    \A p \in ProcIds :
        TerminalResponse(p) =>
            /\ proc[p].req.origin = AppUrl => ~proc[p].cors
            /\ proc[p].req.origin = "none" => proc[p].cors
            /\ [ensureCORSHeaders(proc[p].req, proc[p]) EXCEPT !.cors = proc[p].cors] = proc[p]

----------------------------------------------------------------------------
(* The signature of a public request                                       *)

Signed(p) == proc[p].pc = "done" /\ proc[p].test.store # NoShop

\* the entries of a query string other than signature
WithoutSignature(q) == Pick(q, {i \in 1..Len(q) : q[i][1] # "signature"}, 1)

\* C38: setUpValidRequest for RequestType.Public signs the string built from
\* every query param of the resulting URL but signature, shop and timestamp
\* included, sorted by key and joined as key=value with no separator, for
\* every input URL, one with a signature param or repeated keys included; the
\* input request is not modified.
C38_PublicRequestSignsAllButSignature ==
    \A p \in ProcIds :
        Signed(p) =>
            LET test == proc[p].test
                string == reduceToString(sortByKey(fromEntries(WithoutSignature(test.url))))
            IN /\ test.string = string
               /\ test.url[Last(test.url, "signature")][2] = createSHA256HMAC(ApiSecret, string)
               /\ Positions(test.url, "shop") # {} /\ Positions(test.url, "timestamp") # {}

====
